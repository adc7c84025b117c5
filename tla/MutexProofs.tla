---------------------------- MODULE MutexProofs ----------------------------
(***************************************************************************)
(* Proofs about the mutex, for any threads, priorities and mutexes, with   *)
(* every operation.  In order:                                             *)
(*   - OwnersInv: the three records of who holds a mutex agree, and the    *)
(*     priority loop never meets an owner that is RT_NULL;                 *)
(*   - ListsInv: thread states, ready queues, wait lists and timers agree; *)
(*     together they are IInv, the inductive invariant of Mutex;           *)
(*   - the steps of HandoverLock, which the mutex implements;              *)
(*   - InheritInv: priority inheritance is exact where the source keeps it *)
(*     exact (PlainTakes), also half way through the priority loop.        *)
(***************************************************************************)
EXTENDS Mutex, KSchedProofs

-----------------------------------------------------------------------------
(* Types of the helpers                                                    *)

\* The fields of a scheduler state.
LEMMA SchedFields ==
  ASSUME NEW s \in SchedState
  PROVE  /\ s.stat \in [Thread -> Stat] /\ s.yield \in [Thread -> BOOLEAN]
         /\ s.prio \in [Thread -> Prio] /\ s.ready \in [Prio -> Seq(Thread)]
         /\ s.cur \in Thread
BY DEF SchedState

\* _thread_get_mutex_priority returns a priority, never 0xff.
LEMMA MutexPrioType ==
  ASSUME NEW t \in Thread, NEW held \in SUBSET Mutexes,
         NEW mp \in [Mutexes -> 0 .. PrioMax], NEW ceil \in [Mutexes -> 0 .. PrioMax]
  PROVE  MutexPrio(t, held, mp, ceil) \in Prio
<1> DEFINE W == {InitPrio[t]} \cup {Min2(mp[m], ceil[m]) : m \in held}
<1>1. InitPrio[t] \in Prio /\ PrioMax \in Nat
  BY ThreadAssumption
<1>2. \A m \in held : Min2(mp[m], ceil[m]) \in Nat
  BY <1>1 DEF Min2
<1>3. W \in SUBSET Nat /\ W # {}
  BY <1>1, <1>2 DEF Prio
<1>4. Min(W) \in Nat /\ Min(W) <= InitPrio[t]
  BY <1>3, MinNat
<1>5. MutexPrio(t, held, mp, ceil) = Min(W)
  BY DEF MutexPrio
<1> HIDE DEF W
<1>6. QED BY <1>1, <1>4, <1>5 DEF Prio

\* _mutex_update_priority returns a priority, or 0xff.
LEMMA HeadPrioType ==
  ASSUME NEW q \in Seq(Thread), NEW prio \in [Thread -> Prio]
  PROVE  HeadPrio(q, prio) \in 0 .. PrioMax
<1>1. PrioMax \in Nat
  BY ThreadAssumption
<1>2. CASE q = <<>>
  BY <1>1, <1>2 DEF HeadPrio, NoPrio
<1>3. CASE q # <<>>
  <2>1. Head(q) \in Thread
    BY <1>3, HeadTailProperties
  <2>2. QED BY <1>1, <1>3, <2>1 DEF HeadPrio, Prio
<1>4. QED BY <1>2, <1>3

\* _thread_update_priority, its first change: it suspends and wakes nobody and
\* leaves the CPU where it is.
LEMMA UpdatePriorityStep ==
  ASSUME NEW s \in SchedState, NEW t \in Thread, NEW p \in Prio,
         chain \in Thread \cup {NoThread},
         UpdatePriority(s, t, p)
  PROVE  /\ sched' \in SchedState
         /\ sched'.cur = s.cur
         /\ \A x \in Thread : sched'.stat[x] = "suspend" <=> s.stat[x] = "suspend"
         /\ chain' \in Thread \cup {NoThread}
<1>1. CASE p # s.prio[t]
  BY <1>1, ChangePrioState DEF UpdatePriority
<1>2. CASE p = s.prio[t]
  BY <1>2 DEF UpdatePriority
<1>3. QED BY <1>1, <1>2

\* _check_and_update_prio
LEMMA CheckedPrioState ==
  ASSUME NEW t \in Thread, NEW m, NEW held \in SUBSET Mutexes, TypeOK
  PROVE  /\ CheckedPrio(t, m, held) \in SchedState
         /\ CheckedPrio(t, m, held).cur = sched.cur
         /\ \A x \in Thread :
              CheckedPrio(t, m, held).stat[x] = "suspend" <=> sched.stat[x] = "suspend"
<1> DEFINE p == MutexPrio(t, held, mprio, ceiling)
<1>1. p \in Prio
  BY MutexPrioType DEF TypeOK
<1>2. sched \in SchedState
  BY DEF TypeOK
<1>3. CheckedPrio(t, m, held) = IF ChecksPrio(t, m) THEN ChangePrio(sched, t, p) ELSE sched
  BY DEF CheckedPrio
<1> HIDE DEF p
<1>4. QED BY <1>1, <1>2, <1>3, ChangePrioState

\* rt_schedule, with or without the scheduler lock.
LEMMA ReschedState ==
  ASSUME NEW s \in SchedState
  PROVE  /\ Resched(s) \in SchedState
         /\ SuspendsNone(s, Resched(s))
         /\ pc[cur] \in LockedPC => Resched(s).cur = s.cur
BY ScheduleState, ScheduleLockedState DEF Resched, SuspendsNone

-----------------------------------------------------------------------------
(* What keeps each part of OwnersInv, whatever the action                        *)

\* Nothing about ownership changes.
LEMMA OwnersKept ==
  ASSUME OwnerConsistent, UNCHANGED <<owner, hold, live, taken>>
  PROVE  OwnerConsistent'
BY DEF OwnerConsistent

\* Nobody is suspended who was not, and neither lists nor timeouts change.
LEMMA WaitsKept ==
  ASSUME WaitersListed, TimersAgree, SuspendsNone(sched, sched'),
         UNCHANGED <<owner, waitq, pending, timer, ttmr>>
  PROVE  WaitersListed' /\ TimersAgree'
BY DEF WaitersListed, TimersAgree, SuspendsNone

\* Thread x was woken: all others stay on their lists, with their timeouts.
LEMMA WaitsKeptButOne ==
  ASSUME WaitersListed, TimersAgree, TypeOK, SuspendsNone(sched, sched'),
         NEW x \in Thread, sched'.stat[x] # "suspend",
         UNCHANGED <<owner, pending>>,
         \A m \in Mutexes : \A y \in ToSet(waitq[m]) : y # x => y \in ToSet(waitq'[m]),
         \A y \in Thread \ {x} : timer'[y] = timer[y] /\ ttmr'[y] = ttmr[y]
  PROVE  WaitersListed' /\ TimersAgree'
<1>1. \A y \in Thread : sched'.stat[y] = "suspend" => y # x /\ sched.stat[y] = "suspend"
  BY DEF SuspendsNone
<1>2. TimersAgree'
  BY <1>1 DEF TimersAgree
<1>3. WaitersListed'
  BY <1>1 DEF WaitersListed, TypeOK
<1>4. QED BY <1>2, <1>3

\* No code position changes, and the CPU changes hands only if the scheduler
\* is not locked.
LEMMA LockKept ==
  ASSUME TypeOK, OnlyRunningHoldsLock, UNCHANGED pc,
         pc[cur] \in LockedPC => sched'.cur = sched.cur
  PROVE  OnlyRunningHoldsLock'
BY DEF OnlyRunningHoldsLock, cur, TypeOK, SchedState

\* The running thread t alone moves, and if it moves into a section with the
\* scheduler locked then it still has the CPU.
LEMMA LockMoved ==
  ASSUME TypeOK, OnlyRunningHoldsLock, NEW t \in Thread, t = cur, NEW l,
         pc' = [pc EXCEPT ![t] = l],
         l \in LockedPC => sched'.cur = sched.cur
  PROVE  OnlyRunningHoldsLock'
BY DEF OnlyRunningHoldsLock, cur, TypeOK, SchedState

-----------------------------------------------------------------------------
(* Taking                                                                  *)

\* The owner takes the mutex once more.
LEMMA TakeAgainStep ==
  ASSUME OwnersInv, NEW t \in Thread, NEW m \in Mutexes, TakeAgain(t, m)
  PROVE  OwnersInv'
<1> USE DEF OwnersInv, TakeAgain, codeVars
<1>1. TypeOK'
  <2>1. hold' \in [Mutexes -> 0 .. HoldMax] /\ err' \in [Thread -> {"ok", "timeout", "error"}]
    BY MutexAssumption DEF TypeOK
  <2>2. QED BY <2>1 DEF TypeOK
<1>2. WantKnown' /\ PendingOnlyInTake' /\ VictimKnown'
  BY DEF WantKnown, PendingOnlyInTake, VictimKnown
<1>3. WaitersListed' /\ TimersAgree'
  BY WaitsKept DEF SuspendsNone
<1>4. OnlyRunningHoldsLock'
  BY LockKept
<1>5. OwnerConsistent'
  BY ThreadAssumption, MutexAssumption DEF OwnerConsistent, TypeOK
<1>6. QED BY <1>1, <1>2, <1>3, <1>4, <1>5

\* A free mutex is taken.
LEMMA TakeFreeStep ==
  ASSUME OwnersInv, NEW t \in Thread, NEW m \in Mutexes, TakeFree(t, m)
  PROVE  OwnersInv'
<1> USE DEF OwnersInv, TakeFree, codeVars
<1>1. /\ sched' \in SchedState /\ sched'.cur = sched.cur
      /\ \A x \in Thread : sched'.stat[x] = "suspend" <=> sched.stat[x] = "suspend"
  <2>1. ceiling[m] < sched.prio[t] => ceiling[m] \in Prio
    BY ThreadAssumption DEF TypeOK, SchedState, Prio
  <2>2. QED BY <2>1, ChangePrioState DEF TypeOK
<1>2. TypeOK'
  BY <1>1, ThreadAssumption, MutexAssumption DEF TypeOK, NoPrio
<1>3. WantKnown' /\ VictimKnown'
  BY DEF WantKnown, VictimKnown
<1>4. PendingOnlyInTake'
  BY DEF PendingOnlyInTake, WantKnown, TypeOK, At
<1>5. WaitersListed' /\ TimersAgree'
  BY <1>1, ThreadAssumption DEF WaitersListed, TimersAgree, TypeOK
<1>6. OnlyRunningHoldsLock'
  BY <1>1, LockKept
<1>7. OwnerConsistent'
  BY ThreadAssumption DEF OwnerConsistent, TypeOK
<1>8. QED BY <1>2, <1>3, <1>4, <1>5, <1>6, <1>7

\* The thread suspends itself on a mutex that has an owner.
LEMMA TakeBlockStep ==
  ASSUME OwnersInv, NEW t \in Thread, NEW m \in Mutexes, TakeBlock(t, m)
  PROVE  OwnersInv'
<1> USE DEF OwnersInv, TakeBlock
<1> DEFINE s == Suspend(sched, t)
           p == sched.prio[t]
           q == EnqueuePrio(waitq[m], t, sched.prio)
<1>1. /\ s \in SchedState /\ s.cur = sched.cur
      /\ s.stat = [sched.stat EXCEPT ![t] = "suspend"]
  BY SuspendState DEF TypeOK
<1>2. p \in Prio /\ owner[m] \in Thread
  BY DEF TypeOK, SchedState
<1> HIDE DEF s
<1>3. /\ sched' \in SchedState /\ sched'.cur = sched.cur
      /\ \A x \in Thread : sched'.stat[x] = "suspend" <=> s.stat[x] = "suspend"
      /\ chain' \in Thread \cup {NoThread}
  <2>1. CASE p < mprio[m] /\ p < sched.prio[owner[m]]
    <3>1. UpdatePriority(s, owner[m], p)
      BY <2>1 DEF s
    <3>2. chain \in Thread \cup {NoThread}
      BY DEF TypeOK
    <3>3. QED BY <1>1, <1>2, <3>1, <3>2, UpdatePriorityStep
  <2>2. CASE ~(p < mprio[m] /\ p < sched.prio[owner[m]])
    BY <1>1, <2>2 DEF s, TypeOK
  <2>3. QED BY <2>1, <2>2
<1>4. q \in Seq(Thread) /\ \A x \in ToSet(waitq[m]) \cup {t} : x \in ToSet(q)
  BY EnqueuePrioSeq DEF TypeOK
<1> HIDE DEF q
<1>5. TypeOK'
  <2>1. waitq' \in [Mutexes -> Seq(Thread)]
    BY <1>4 DEF TypeOK, q
  <2>2. mprio' \in [Mutexes -> 0 .. PrioMax]
    BY <1>2, ThreadAssumption DEF TypeOK, Min2, Prio
  <2>3. /\ pending' \in [Thread -> Mutexes \cup {NoMutex}]
        /\ want' \in [Thread -> Mutexes \cup {NoMutex}]
        /\ pc' \in [Thread -> PC]
        /\ err' \in [Thread -> {"ok", "timeout", "error"}]
        /\ timer' \in [Thread -> BOOLEAN] /\ ttmr' \in [Thread -> BOOLEAN]
    BY DEF TypeOK, PC
  <2>4. QED BY <1>3, <2>1, <2>2, <2>3 DEF TypeOK
<1>6. WantKnown' /\ VictimKnown'
  BY DEF WantKnown, VictimKnown, TypeOK
<1>7. PendingOnlyInTake'
  BY DEF PendingOnlyInTake, TypeOK
<1>8. WaitersListed'
  <2>1. \A n \in Mutexes : \A x \in ToSet(waitq[n]) : x \in ToSet(waitq'[n])
    BY <1>4 DEF TypeOK, q
  <2>2. t \in ToSet(waitq'[m])
    BY <1>4 DEF TypeOK, q
  <2>3. \A x \in Thread \ {t} : sched'.stat[x] = "suspend" => sched.stat[x] = "suspend"
    BY <1>1, <1>3 DEF TypeOK, SchedState
  <2>4. QED BY <2>1, <2>2, <2>3 DEF WaitersListed, TypeOK
<1>9. TimersAgree'
  <2>1. \A x \in Thread \ {t} : sched'.stat[x] = "suspend" => sched.stat[x] = "suspend"
    BY <1>1, <1>3 DEF TypeOK, SchedState
  <2>2. timer'[t] = FALSE /\ ttmr'[t] = FALSE
    BY DEF TypeOK
  <2>3. \A x \in Thread \ {t} : timer'[x] = timer[x] /\ ttmr'[x] = ttmr[x]
    BY DEF TypeOK
  <2>4. QED BY <2>1, <2>2, <2>3 DEF TimersAgree
<1>10. OnlyRunningHoldsLock'
  BY <1>3, LockMoved DEF At
<1>11. OwnerConsistent'
  BY OwnersKept
<1>12. QED BY <1>5, <1>6, <1>7, <1>8, <1>9, <1>10, <1>11

\* The timeout is started, or there is none.
LEMMA TakeArmStep ==
  ASSUME OwnersInv, NEW t \in Thread, TakeArm(t)
  PROVE  OwnersInv'
<1> USE DEF OwnersInv, TakeArm, mutexVars
<1>1. PICK on \in BOOLEAN : timer' = [timer EXCEPT ![t] = on] /\ ttmr' = [ttmr EXCEPT ![t] = on]
  BY MutexAssumption
<1>2. TypeOK'
  <2>1. timer' \in [Thread -> BOOLEAN] /\ ttmr' \in [Thread -> BOOLEAN]
    BY <1>1 DEF TypeOK
  <2>2. QED BY <2>1 DEF TypeOK, PC
<1>3. WantKnown' /\ PendingOnlyInTake' /\ VictimKnown'
  BY DEF WantKnown, PendingOnlyInTake, VictimKnown, At, TypeOK
<1>4. WaitersListed'
  BY DEF WaitersListed
<1>5. TimersAgree'
  BY <1>1 DEF TimersAgree, TypeOK
<1>6. OnlyRunningHoldsLock'
  BY LockMoved DEF At
<1>7. OwnerConsistent'
  BY OwnersKept
<1>8. QED BY <1>2, <1>3, <1>4, <1>5, <1>6, <1>7

\* The steps of a take that only move the thread on, at most with a switch.
LEMMA TakeMoveStep ==
  ASSUME OwnersInv, NEW t \in Thread,
         TakeSwitch(t) \/ TakeGranted(t) \/ TakeUnlock(t)
  PROVE  OwnersInv'
<1> USE DEF OwnersInv, mutexVars, threadVars
<1>1. sched \in SchedState
  BY DEF TypeOK
<1>2. sched' \in SchedState /\ SuspendsNone(sched, sched')
  <2>1. CASE TakeSwitch(t)
    <3>1. ExitCritical(sched) \in SchedState /\ SuspendsNone(sched, ExitCritical(sched))
      BY <1>1, ExitCriticalState
    <3>2. SuspendsNone(ExitCritical(sched), Schedule(ExitCritical(sched)))
          /\ Schedule(ExitCritical(sched)) \in SchedState
      BY <3>1, ScheduleState
    <3>3. QED BY <2>1, <3>1, <3>2 DEF TakeSwitch, SuspendsNone
  <2>2. CASE TakeGranted(t)
    BY <1>1, <2>2 DEF TakeGranted, SuspendsNone
  <2>3. CASE TakeUnlock(t)
    BY <1>1, <2>3, ExitCriticalState DEF TakeUnlock
  <2>4. QED BY <2>1, <2>2, <2>3
<1>3. PICK l \in {"wait", "run", "clear"} : pc' = [pc EXCEPT ![t] = l]
  BY DEF TakeSwitch, TakeGranted, TakeUnlock
<1>4. TypeOK'
  BY <1>2, <1>3 DEF TypeOK, PC, TakeSwitch, TakeGranted, TakeUnlock
<1>5. WantKnown' /\ PendingOnlyInTake' /\ VictimKnown'
  BY DEF WantKnown, PendingOnlyInTake, VictimKnown, At, TypeOK,
         TakeSwitch, TakeGranted, TakeUnlock
<1>6. WaitersListed' /\ TimersAgree'
  BY <1>2, WaitsKept DEF TakeSwitch, TakeGranted, TakeUnlock
<1>7. OnlyRunningHoldsLock'
  <2>1. l \notin LockedPC
    BY DEF LockedPC
  <2>2. QED BY <1>3, <2>1, LockMoved DEF At, TakeSwitch, TakeGranted, TakeUnlock
<1>8. OwnerConsistent'
  BY OwnersKept DEF TakeSwitch, TakeGranted, TakeUnlock
<1>9. QED BY <1>4, <1>5, <1>6, <1>7, <1>8

\* A take that failed lowers what it had raised.
LEMMA TakeFailedStep ==
  ASSUME OwnersInv, NEW t \in Thread, TakeFailed(t)
  PROVE  OwnersInv'
<1> USE DEF OwnersInv, TakeFailed, threadVars
<1> DEFINE m == want[t]
           o == owner[m]
           mp == [mprio EXCEPT ![m] = HeadPrio(waitq[m], sched.prio)]
           p == MutexPrio(o, taken[o], mp, ceiling)
<1>1. m \in Mutexes /\ o \in Thread \cup {NoThread} /\ sched \in SchedState
  BY DEF WantKnown, TypeOK, At
<1>2. mp \in [Mutexes -> 0 .. PrioMax]
  BY <1>1, HeadPrioType DEF TypeOK, SchedState
<1>3. /\ sched' \in SchedState /\ sched'.cur = sched.cur
      /\ \A x \in Thread : sched'.stat[x] = "suspend" <=> sched.stat[x] = "suspend"
      /\ chain' \in Thread \cup {NoThread}
  <2>1. CASE o # NoThread /\ sched.prio[o] = sched.prio[t]
    <3>1. o \in Thread /\ UpdatePriority(sched, o, p)
      BY <1>1, <2>1
    <3>2. p \in Prio
      BY <1>2, <3>1, MutexPrioType DEF TypeOK
    <3>3. chain \in Thread \cup {NoThread}
      BY DEF TypeOK
    <3> HIDE DEF p
    <3>4. QED BY <1>1, <3>1, <3>2, <3>3, UpdatePriorityStep
  <2>2. CASE ~(o # NoThread /\ sched.prio[o] = sched.prio[t])
    BY <1>1, <2>2 DEF TypeOK
  <2>3. QED BY <2>1, <2>2
<1>4. TypeOK'
  BY <1>2, <1>3 DEF TypeOK, PC
<1>5. WantKnown' /\ PendingOnlyInTake' /\ VictimKnown'
  BY DEF WantKnown, PendingOnlyInTake, VictimKnown, At, TypeOK
<1>6. WaitersListed' /\ TimersAgree'
  BY <1>3, WaitsKept DEF SuspendsNone
<1>7. OnlyRunningHoldsLock'
  BY <1>3, LockMoved DEF At
<1>8. OwnerConsistent'
  BY OwnersKept
<1>9. QED BY <1>4, <1>5, <1>6, <1>7, <1>8

\* pending_object is cleared last.
LEMMA TakeReturnStep ==
  ASSUME OwnersInv, NEW t \in Thread, TakeReturn(t)
  PROVE  OwnersInv'
<1> USE DEF OwnersInv, TakeReturn, mutexVars
<1>1. TypeOK'
  BY DEF TypeOK, PC
<1>2. WantKnown' /\ PendingOnlyInTake' /\ VictimKnown'
  BY DEF WantKnown, PendingOnlyInTake, VictimKnown, At, TypeOK
<1>3. WaitersListed' /\ TimersAgree'
  BY DEF WaitersListed, TimersAgree, TypeOK
<1>4. OnlyRunningHoldsLock'
  BY LockMoved DEF At
<1>5. OwnerConsistent'
  BY OwnersKept
<1>6. QED BY <1>1, <1>2, <1>3, <1>4, <1>5
\* The loop of _thread_update_priority: WaitersListed says that the mutex a
\* suspended thread waits for has an owner to go on with.
LEMMA PropagateStep ==
  ASSUME OwnersInv, Propagate
  PROVE  OwnersInv'
<1> USE DEF OwnersInv, Propagate, threadVars
<1> DEFINE x  == chain
           m  == pending[x]
           q  == Requeued(x, m)
           mp == [mprio EXCEPT ![m] = HeadPrio(q, sched.prio)]
           o  == owner[m]
           p  == MutexPrio(o, taken[o], mp, ceiling)
<1>1. x \in Thread /\ sched \in SchedState
  BY DEF TypeOK
<1>2. ASSUME sched.stat[x] = "suspend", m # NoMutex
      PROVE  /\ m \in Mutexes /\ o \in Thread
             /\ q \in Seq(Thread) /\ \A y \in ToSet(waitq[m]) : y \in ToSet(q)
             /\ mp \in [Mutexes -> 0 .. PrioMax] /\ p \in Prio
  <2>1. m \in Mutexes /\ waitq[m] \in Seq(Thread)
    BY <1>1, <1>2 DEF TypeOK
  <2>2. o \in Thread
    BY <1>1, <1>2, <2>1 DEF WaitersListed, TypeOK
  <2>3. Unlink(waitq[m], x) \in Seq(Thread)
        /\ \A y \in ToSet(waitq[m]) : y # x => y \in ToSet(Unlink(waitq[m], x))
    BY <2>1, UnlinkSeq
  <2>4. q \in Seq(Thread) /\ \A y \in ToSet(waitq[m]) : y \in ToSet(q)
    BY <1>1, <2>3, EnqueuePrioSeq DEF Requeued
  <2> HIDE DEF q
  <2>5. HeadPrio(q, sched.prio) \in 0 .. PrioMax
    BY <1>1, <2>4, HeadPrioType DEF SchedState
  <2>6. mp \in [Mutexes -> 0 .. PrioMax]
    BY <2>5 DEF TypeOK
  <2> HIDE DEF mp
  <2>7. p \in Prio
    BY <2>2, <2>6, MutexPrioType DEF TypeOK
  <2>8. QED BY <2>1, <2>2, <2>4, <2>6, <2>7
<1>3. /\ sched' \in SchedState /\ sched'.cur = sched.cur
      /\ \A y \in Thread : sched'.stat[y] = "suspend" <=> sched.stat[y] = "suspend"
      /\ chain' \in Thread \cup {NoThread}
      /\ mprio' \in [Mutexes -> 0 .. PrioMax]
      /\ waitq' \in [Mutexes -> Seq(Thread)]
      /\ \A n \in Mutexes : \A y \in ToSet(waitq[n]) : y \in ToSet(waitq'[n])
  <2>1. CASE sched.stat[x] = "suspend" /\ m # NoMutex
    <3> HIDE DEF q
    <3>1. waitq' = [waitq EXCEPT ![m] = q] /\ mprio' = mp
      BY <2>1 DEF q
    <3>2. IF GoesOn(o, p)
          THEN sched' = ChangePrio(sched, o, p) /\ chain' = o
          ELSE UNCHANGED sched /\ chain' = NoThread
      BY <2>1 DEF q
    <3> HIDE DEF mp, p, o
    <3>3. /\ waitq' \in [Mutexes -> Seq(Thread)]
          /\ \A n \in Mutexes : \A y \in ToSet(waitq[n]) : y \in ToSet(waitq'[n])
      BY <1>2, <2>1, <3>1 DEF TypeOK
    <3>4. CASE GoesOn(o, p)
      BY <1>1, <1>2, <2>1, <3>1, <3>2, <3>3, <3>4, ChangePrioState
    <3>5. CASE ~GoesOn(o, p)
      BY <1>1, <1>2, <2>1, <3>1, <3>2, <3>3, <3>5
    <3>6. QED BY <3>4, <3>5
  <2>2. CASE ~(sched.stat[x] = "suspend" /\ m # NoMutex)
    BY <1>1, <2>2 DEF TypeOK
  <2>3. QED BY <2>1, <2>2
<1>4. UNCHANGED <<owner, hold, ceiling, live, taken, pending, err, timer, ttmr, pc, want, victim>>
  OBVIOUS
<1>5. TypeOK'
  BY <1>3, <1>4 DEF TypeOK
<1>6. WantKnown' /\ PendingOnlyInTake' /\ VictimKnown'
  BY <1>4 DEF WantKnown, PendingOnlyInTake, VictimKnown
<1>7. WaitersListed' /\ TimersAgree'
  BY <1>3, <1>4 DEF WaitersListed, TimersAgree, TypeOK
<1>8. OnlyRunningHoldsLock'
  BY <1>3, <1>4, LockKept
<1>9. OwnerConsistent'
  BY <1>4, OwnersKept
<1>10. QED BY <1>5, <1>6, <1>7, <1>8, <1>9

-----------------------------------------------------------------------------
(* Releasing                                                               *)

\* The owner gives back one of several holds.
LEMMA ReleaseAgainStep ==
  ASSUME OwnersInv, NEW t \in Thread, NEW m \in Mutexes, ReleaseAgain(t, m)
  PROVE  OwnersInv'
<1> USE DEF OwnersInv, ReleaseAgain, codeVars, threadVars
<1>1. TypeOK'
  <2>1. hold' \in [Mutexes -> 0 .. HoldMax]
    BY MutexAssumption DEF TypeOK
  <2>2. QED BY <2>1 DEF TypeOK
<1>2. WantKnown' /\ PendingOnlyInTake' /\ VictimKnown'
  BY DEF WantKnown, PendingOnlyInTake, VictimKnown
<1>3. WaitersListed' /\ TimersAgree'
  BY WaitsKept DEF SuspendsNone
<1>4. OnlyRunningHoldsLock'
  BY LockKept
<1>5. OwnerConsistent'
  BY ThreadAssumption, MutexAssumption DEF OwnerConsistent, TypeOK
<1>6. QED BY <1>1, <1>2, <1>3, <1>4, <1>5

\* The last release, with a waiter that can be made ready or without.  A waiter
\* that is passed over has lost its timeout, so TimersAgree says it is not
\* suspended any more: no suspended thread is dropped from the list.
LEMMA ReleaseLastStep ==
  ASSUME OwnersInv, NEW t \in Thread, NEW m \in Mutexes,
         t = cur, live[m], owner[m] = t,
         ReleaseLast(t, m), UNCHANGED codeVars
  PROVE  OwnersInv'
<1> USE DEF OwnersInv, codeVars
<1> DEFINE left == taken[t] \ {m}
           s    == CheckedPrio(t, m, left)
           q    == waitq[m]
           good == {i \in 1 .. Len(q) : CanReady(q[i])}
           free == good = {}
           i    == IF free THEN Len(q) ELSE Min(good)
           n    == q[i]
           rest == SubSeq(q, i + 1, Len(q))
<1>1. /\ q \in Seq(Thread) /\ Len(q) \in Nat
      /\ \A k \in 1 .. Len(q) : q[k] \in Thread
      /\ \A x : x \in ToSet(q) <=> \E k \in 1 .. Len(q) : q[k] = x
  <2>1. q \in Seq(Thread)
    BY DEF TypeOK
  <2>2. QED BY <2>1, InToSet
<1>2. i \in 0 .. Len(q) /\ \A k \in good : i <= k
  <2>1. CASE free
    BY <1>1, <2>1
  <2>2. CASE ~free
    <3>1. good \in SUBSET Nat
      OBVIOUS
    <3> HIDE DEF good
    <3>2. Min(good) \in good /\ \A k \in good : Min(good) <= k
      BY <2>2, <3>1, MinNat
    <3>3. QED BY <1>1, <2>2, <3>2 DEF good
  <2>3. QED BY <2>1, <2>2
<1>3. ~free => i \in 1 .. Len(q) /\ CanReady(n) /\ n \in Thread
  <2> SUFFICES ASSUME ~free PROVE i \in 1 .. Len(q) /\ CanReady(n) /\ n \in Thread
    OBVIOUS
  <2>1. good \in SUBSET Nat
    OBVIOUS
  <2>2. Min(good) \in good
    BY <2>1, MinNat
  <2>3. i \in good
    BY <2>2
  <2>4. QED BY <1>1, <2>3
<1>4. rest \in Seq(Thread) /\ \A k \in i + 1 .. Len(q) : q[k] \in ToSet(rest)
  <2> HIDE DEF i, OwnersInv
  <2> DEFINE r == SubSeq(q, i + 1, Len(q))
  <2>1. i + 1 \in 1 .. Len(q) + 1
    BY <1>1, <1>2
  <2>2. /\ r \in Seq(Thread) /\ Len(r) = Len(q) - i
        /\ \A k \in 1 .. Len(q) - i : r[k] = q[k + i]
    BY <1>1, <1>2, <2>1, SubSeqProperties
  <2> HIDE DEF r
  <2>3. \A x : x \in ToSet(r) <=> \E k \in 1 .. Len(r) : r[k] = x
    BY <2>2, InToSet
  <2>4. \A k \in i + 1 .. Len(q) : k - i \in 1 .. Len(r) /\ r[k - i] = q[k]
    BY <1>1, <1>2, <2>2
  <2>5. QED BY <2>2, <2>3, <2>4 DEF r
<1>5. /\ s \in SchedState /\ s.cur = sched.cur
      /\ \A x \in Thread : s.stat[x] = "suspend" <=> sched.stat[x] = "suspend"
  <2>1. left \in SUBSET Mutexes
    BY DEF TypeOK
  <2> HIDE DEF left
  <2>2. QED BY <2>1, CheckedPrioState
<1>6. /\ owner' = [owner EXCEPT ![m] = IF free THEN NoThread ELSE n]
      /\ hold'  = [hold EXCEPT ![m] = IF free THEN 0 ELSE 1]
      /\ mprio' = [mprio EXCEPT ![m] = HeadPrio(rest, sched.prio)]
      /\ waitq' = [waitq EXCEPT ![m] = rest]
      /\ taken' = IF free
                  THEN [taken EXCEPT ![t] = left]
                  ELSE [taken EXCEPT ![t] = left, ![n] = @ \cup {m}]
      /\ timer' = IF free THEN timer ELSE [timer EXCEPT ![n] = FALSE]
      /\ ttmr'  = [x \in Thread |-> ttmr[x] /\ \A k \in 1 .. i : q[k] # x]
      /\ pending' = IF free THEN pending ELSE [pending EXCEPT ![n] = NoMutex]
      /\ sched' = IF free
                  THEN IF ChecksPrio(t, m) THEN Resched(s) ELSE s
                  ELSE Resched(Insert(s, n))
      /\ UNCHANGED <<ceiling, live, err>>
  BY DEF ReleaseLast
<1>7. /\ sched' \in SchedState
      /\ \A x \in Thread : sched'.stat[x] = "suspend" => sched.stat[x] = "suspend"
      /\ ~free => sched'.stat[n] # "suspend"
      /\ pc[cur] \in LockedPC => sched'.cur = sched.cur
  <2> HIDE DEF s, good, i
  <2>1. CASE free
    <3>1. /\ Resched(s) \in SchedState /\ SuspendsNone(s, Resched(s))
          /\ pc[cur] \in LockedPC => Resched(s).cur = s.cur
      BY <1>5, ReschedState
    <3>2. QED BY <1>5, <1>6, <2>1, <3>1 DEF SuspendsNone
  <2>2. CASE ~free
    <3>1. /\ Insert(s, n) \in SchedState /\ Insert(s, n).cur = s.cur
          /\ Insert(s, n).stat[n] \in {"ready", "running"}
          /\ \A x \in Thread \ {n} : Insert(s, n).stat[x] = s.stat[x]
      BY <1>3, <1>5, <2>2, InsertState
    <3> DEFINE r == Insert(s, n)
    <3>2. sched' = Resched(r)
      BY <1>6, <2>2
    <3> HIDE DEF r
    <3>3. /\ Resched(r) \in SchedState /\ SuspendsNone(r, Resched(r))
          /\ pc[cur] \in LockedPC => Resched(r).cur = r.cur
      BY <3>1, ReschedState DEF r
    <3>4. r.stat[n] # "suspend"
          /\ \A x \in Thread : r.stat[x] = "suspend" => sched.stat[x] = "suspend"
      BY <1>3, <1>5, <2>2, <3>1 DEF r
    <3>5. r.cur = sched.cur
      BY <1>5, <3>1 DEF r
    <3>6. QED BY <1>3, <2>2, <3>2, <3>3, <3>4, <3>5 DEF SuspendsNone
  <2>3. QED BY <2>1, <2>2
\* A thread that is still suspended afterwards and was on the list stays on it.
<1>8. ASSUME NEW x \in Thread, sched'.stat[x] = "suspend", NEW k \in 1 .. Len(q), q[k] = x
      PROVE  ~free /\ k > i /\ x # n
  <2>1. sched.stat[x] = "suspend"
    BY <1>7, <1>8
  <2>2. CanReady(q[k])
    BY <1>8, <2>1 DEF CanReady, TimersAgree
  <2>3. k \in good
    BY <2>2
  <2>4. ~free /\ i <= k
    BY <1>2, <2>3
  <2>5. x # n
    BY <1>7, <1>8, <2>4
  <2> HIDE DEF i, good
  <2>6. QED BY <1>2, <1>8, <2>4, <2>5
<1> HIDE DEF i, good, s, rest
<1>9. TypeOK'
  <2>1. mprio' \in [Mutexes -> 0 .. PrioMax] /\ waitq' \in [Mutexes -> Seq(Thread)]
    <3>1. HeadPrio(rest, sched.prio) \in 0 .. PrioMax
      BY <1>4, HeadPrioType DEF TypeOK, SchedState
    <3>2. QED BY <1>4, <1>6, <3>1 DEF TypeOK
  <2>2. /\ owner' \in [Mutexes -> Thread \cup {NoThread}]
        /\ hold' \in [Mutexes -> 0 .. HoldMax]
    BY <1>3, <1>6, MutexAssumption DEF TypeOK
  <2>3. taken' \in [Thread -> SUBSET Mutexes]
    BY <1>3, <1>6 DEF TypeOK
  <2>4. /\ pending' \in [Thread -> Mutexes \cup {NoMutex}]
        /\ timer' \in [Thread -> BOOLEAN]
    BY <1>3, <1>6 DEF TypeOK
  <2>5. ttmr' \in [Thread -> BOOLEAN]
    BY <1>6
  <2>6. QED BY <1>6, <1>7, <2>1, <2>2, <2>3, <2>4, <2>5 DEF TypeOK
<1>10. WantKnown' /\ VictimKnown'
  BY DEF WantKnown, VictimKnown
<1>11. PendingOnlyInTake'
  <2>1. \A x \in Thread : pending[x] = NoMutex => pending'[x] = NoMutex
    BY <1>3, <1>6 DEF TypeOK
  <2>2. ASSUME NEW x \in Thread, pc[x] \in {"arm", "block", "wait"}, owner'[want[x]] = x
        PROVE  pending'[x] = NoMutex
    <3>1. want[x] \in Mutexes
      BY <2>2 DEF WantKnown
    <3>2. CASE want[x] = m
      <4>1. x = n /\ ~free
        BY <1>6, <2>2, <3>2, ThreadAssumption DEF TypeOK
      <4>2. QED BY <1>6, <4>1 DEF TypeOK
    <3>3. CASE want[x] # m
      BY <1>6, <2>1, <2>2, <3>1, <3>3 DEF TypeOK, PendingOnlyInTake
    <3>4. QED BY <3>2, <3>3
  <2>3. QED BY <2>1, <2>2 DEF PendingOnlyInTake
<1>12. WaitersListed'
  <2> SUFFICES ASSUME NEW x \in Thread, sched'.stat[x] = "suspend", pending'[x] # NoMutex
               PROVE  x \in ToSet(waitq'[pending'[x]]) /\ owner'[pending'[x]] # NoThread
    BY DEF WaitersListed
  <2>1. pending'[x] = pending[x] /\ pending[x] \in Mutexes /\ sched.stat[x] = "suspend"
    BY <1>6, <1>7 DEF TypeOK
  <2>2. x \in ToSet(waitq[pending[x]]) /\ owner[pending[x]] # NoThread
    BY <2>1 DEF WaitersListed
  <2>3. CASE pending[x] = m
    <3>1. PICK k \in 1 .. Len(q) : q[k] = x
      BY <1>1, <2>2, <2>3
    <3>2. ~free /\ k > i
      BY <1>8, <3>1
    <3>3. x \in ToSet(rest)
      BY <1>1, <1>2, <1>4, <3>1, <3>2
    <3>4. QED BY <1>3, <1>6, <2>1, <2>3, <3>2, <3>3, ThreadAssumption DEF TypeOK
  <2>4. CASE pending[x] # m
    BY <1>6, <2>1, <2>2, <2>4 DEF TypeOK
  <2>5. QED BY <2>3, <2>4
<1>13. TimersAgree'
  <2> SUFFICES ASSUME NEW x \in Thread, sched'.stat[x] = "suspend"
               PROVE  ttmr'[x] = timer'[x]
    BY DEF TimersAgree
  <2>1. ttmr[x] = timer[x]
    BY <1>7 DEF TimersAgree
  <2>2. \A k \in 1 .. i : q[k] # x
    BY <1>1, <1>2, <1>8
  <2>3. timer'[x] = timer[x]
    BY <1>6, <1>7 DEF TypeOK
  <2>4. ttmr'[x] = (ttmr[x] /\ \A k \in 1 .. i : q[k] # x)
    BY <1>6
  <2>5. (ttmr[x] /\ \A k \in 1 .. i : q[k] # x) = ttmr[x]
    <3>1. ttmr[x] \in BOOLEAN
      BY DEF TypeOK
    <3>2. QED BY <2>2, <3>1
  <2>6. QED BY <2>1, <2>3, <2>4, <2>5
<1>14. OnlyRunningHoldsLock'
  BY <1>7, LockKept
<1>15. OwnerConsistent'
  BY <1>3, <1>6, ThreadAssumption DEF OwnerConsistent, TypeOK
<1>16. QED BY <1>9, <1>10, <1>11, <1>12, <1>13, <1>14, <1>15

\* rt_mutex_release by the owner.
LEMMA ReleaseStep ==
  ASSUME OwnersInv, NEW t \in Thread, NEW m \in Mutexes, Release(t, m)
  PROVE  OwnersInv'
BY ReleaseLastStep DEF Release, At

\* The loop over the taken mutexes of a thread that exits: by OwnerConsistent
\* it does own them.
LEMMA FreeTakenStep ==
  ASSUME OwnersInv, NEW t \in Thread, NEW m \in Mutexes, FreeTaken(t, m)
  PROVE  OwnersInv'
<1>1. live[m] /\ owner[m] = t
  BY DEF OwnersInv, OwnerConsistent, FreeTaken
<1>2. QED BY <1>1, ReleaseLastStep DEF FreeTaken, At
-----------------------------------------------------------------------------
(* The ceiling, and the operations of the scheduler                         *)

\* rt_mutex_setprioceiling
LEMMA SetCeilingStep ==
  ASSUME OwnersInv, NEW t \in Thread, NEW m \in Mutexes, NEW c \in SetPrios, SetCeiling(t, m, c)
  PROVE  OwnersInv'
<1> USE DEF OwnersInv, SetCeiling, threadVars
<1> DEFINE o == owner[m]
           p == MutexPrio(o, taken[o], mprio, ceiling')
<1>1. /\ sched \in SchedState /\ chain \in Thread \cup {NoThread}
      /\ o \in Thread \cup {NoThread}
  BY DEF TypeOK
<1>2. ceiling' \in [Mutexes -> 0 .. PrioMax]
  BY MutexAssumption, ThreadAssumption DEF TypeOK, Prio
<1>3. /\ sched' \in SchedState /\ sched'.cur = sched.cur
      /\ \A x \in Thread : sched'.stat[x] = "suspend" <=> sched.stat[x] = "suspend"
      /\ chain' \in Thread \cup {NoThread}
  <2>1. CASE o # NoThread
    <3>1. o \in Thread /\ UpdatePriority(sched, o, p)
      BY <1>1, <2>1
    <3>2. p \in Prio
      BY <1>2, <3>1, MutexPrioType DEF TypeOK
    <3> HIDE DEF p
    <3>3. QED BY <1>1, <3>1, <3>2, UpdatePriorityStep
  <2>2. CASE o = NoThread
    BY <1>1, <2>2
  <2>3. QED BY <2>1, <2>2
<1>4. TypeOK'
  BY <1>2, <1>3 DEF TypeOK, PC
<1>5. WantKnown' /\ PendingOnlyInTake' /\ VictimKnown'
  BY DEF WantKnown, PendingOnlyInTake, VictimKnown, At, TypeOK
<1>6. WaitersListed' /\ TimersAgree'
  BY <1>3, WaitsKept DEF SuspendsNone
<1>7. OnlyRunningHoldsLock'
  BY <1>3, LockMoved DEF At
<1>8. OwnerConsistent'
  BY OwnersKept
<1>9. QED BY <1>4, <1>5, <1>6, <1>7, <1>8

\* rt_mutex_setprioceiling leaves its critical section, which may switch
\* threads, and changes no ownership.
LEMMA SetCeilingReturnStep ==
  ASSUME OwnersInv, NEW t \in Thread, SetCeilingReturn(t)
  PROVE  OwnersInv'
<1> USE DEF OwnersInv, SetCeilingReturn, mutexVars, threadVars
<1>1. sched' \in SchedState /\ SuspendsNone(sched, sched')
  BY ExitCriticalState DEF TypeOK
<1>2. TypeOK'
  BY <1>1 DEF TypeOK, PC
<1>3. WantKnown' /\ PendingOnlyInTake' /\ VictimKnown'
  BY DEF WantKnown, PendingOnlyInTake, VictimKnown, At, TypeOK
<1>4. WaitersListed' /\ TimersAgree'
  BY <1>1, WaitsKept
<1>5. OnlyRunningHoldsLock'
  BY LockMoved DEF At, LockedPC
<1>6. OwnerConsistent'
  BY OwnersKept
<1>7. QED BY <1>2, <1>3, <1>4, <1>5, <1>6

\* Thread x is taken off every wait list: all others stay where they are.
LEMMA UnlinkedEverywhere ==
  ASSUME TypeOK, NEW x \in Thread,
         NEW w, w = [m \in Mutexes |-> Unlink(waitq[m], x)]
  PROVE  /\ w \in [Mutexes -> Seq(Thread)]
         /\ \A m \in Mutexes : \A y \in ToSet(waitq[m]) : y # x => y \in ToSet(w[m])
<1>1. \A m \in Mutexes :
        /\ Unlink(waitq[m], x) \in Seq(Thread)
        /\ \A y \in ToSet(waitq[m]) : y # x => y \in ToSet(Unlink(waitq[m], x))
  BY UnlinkSeq DEF TypeOK
<1>2. QED BY <1>1

\* Thread x is made ready and rt_schedule is called.
LEMMA WakeState ==
  ASSUME TypeOK, NEW x \in Thread, NEW s, s = Insert(sched, x), sched' = Resched(s)
  PROVE  /\ sched' \in SchedState /\ SuspendsNone(sched, sched')
         /\ sched'.stat[x] # "suspend"
         /\ pc[cur] \in LockedPC => sched'.cur = sched.cur
<1>1. /\ s \in SchedState /\ s.cur = sched.cur
      /\ s.stat[x] \in {"ready", "running"}
      /\ \A y \in Thread \ {x} : s.stat[y] = sched.stat[y]
  <2>1. sched \in SchedState
    BY DEF TypeOK
  <2>2. QED BY <2>1, InsertState
<1>2. /\ Resched(s) \in SchedState /\ SuspendsNone(s, Resched(s))
      /\ pc[cur] \in LockedPC => Resched(s).cur = s.cur
  BY <1>1, ReschedState
<1>3. QED BY <1>1, <1>2 DEF SuspendsNone

\* _thread_timeout
LEMMA TimerExpiresStep ==
  ASSUME OwnersInv, NEW x \in Thread, TimerExpires(x)
  PROVE  OwnersInv'
<1> USE DEF OwnersInv, TimerExpires, codeVars
<1>1. /\ sched' \in SchedState /\ SuspendsNone(sched, sched')
      /\ sched'.stat[x] # "suspend"
      /\ pc[cur] \in LockedPC => sched'.cur = sched.cur
  BY WakeState
<1>2. /\ waitq' \in [Mutexes -> Seq(Thread)]
      /\ \A m \in Mutexes : \A y \in ToSet(waitq[m]) : y # x => y \in ToSet(waitq'[m])
  BY UnlinkedEverywhere
<1>3. TypeOK'
  <2>1. timer' \in [Thread -> BOOLEAN] /\ err' \in [Thread -> {"ok", "timeout", "error"}]
    BY DEF TypeOK
  <2>2. QED BY <1>1, <1>2, <2>1 DEF TypeOK
<1>4. WantKnown' /\ PendingOnlyInTake' /\ VictimKnown'
  BY DEF WantKnown, PendingOnlyInTake, VictimKnown
<1>5. WaitersListed' /\ TimersAgree'
  <2>1. \A y \in Thread \ {x} : timer'[y] = timer[y] /\ ttmr'[y] = ttmr[y]
    BY DEF TypeOK
  <2>2. QED BY <1>1, <1>2, <2>1, WaitsKeptButOne
<1>6. OnlyRunningHoldsLock'
  BY <1>1, LockKept
<1>7. OwnerConsistent'
  BY OwnersKept
<1>8. QED BY <1>3, <1>4, <1>5, <1>6, <1>7

\* rt_thread_resume
LEMMA ResumeStep ==
  ASSUME OwnersInv, NEW t \in Thread, NEW x \in Thread, Resume(t, x)
  PROVE  OwnersInv'
<1> USE DEF OwnersInv, Resume, codeVars
<1>1. pc[cur] \notin LockedPC
  BY DEF At, LockedPC
<1>2. /\ sched' \in SchedState /\ SuspendsNone(sched, sched')
      /\ sched'.stat[x] # "suspend"
  BY <1>1, WakeState DEF Resched
<1>3. /\ waitq' \in [Mutexes -> Seq(Thread)]
      /\ \A m \in Mutexes : \A y \in ToSet(waitq[m]) : y # x => y \in ToSet(waitq'[m])
  BY UnlinkedEverywhere
<1>4. TypeOK'
  <2>1. timer' \in [Thread -> BOOLEAN] /\ ttmr' \in [Thread -> BOOLEAN]
    BY DEF TypeOK
  <2>2. QED BY <1>2, <1>3, <2>1 DEF TypeOK
<1>5. WantKnown' /\ PendingOnlyInTake' /\ VictimKnown'
  BY DEF WantKnown, PendingOnlyInTake, VictimKnown
<1>6. WaitersListed' /\ TimersAgree'
  <2>1. \A y \in Thread \ {x} : timer'[y] = timer[y] /\ ttmr'[y] = ttmr[y]
    BY DEF TypeOK
  <2>2. QED BY <1>2, <1>3, <2>1, WaitsKeptButOne
<1>7. OnlyRunningHoldsLock'
  BY <1>1, LockKept
<1>8. OwnerConsistent'
  BY OwnersKept
<1>9. QED BY <1>4, <1>5, <1>6, <1>7, <1>8

\* The end of a time slice, rt_thread_yield
LEMMA SliceEndsStep ==
  ASSUME OwnersInv, SliceEnds
  PROVE  OwnersInv'
<1> USE DEF OwnersInv, SliceEnds, codeVars, mutexVars, threadVars
<1> DEFINE s == [sched EXCEPT !.yield[cur] = TRUE]
<1>1. s \in SchedState /\ s.stat = sched.stat /\ s.cur = sched.cur
  BY DEF TypeOK, SchedState
<1>2. sched' = Resched(s)
  OBVIOUS
<1> HIDE DEF s
<1>3. /\ sched' \in SchedState /\ SuspendsNone(sched, sched')
      /\ pc[cur] \in LockedPC => sched'.cur = sched.cur
  <2>1. /\ Resched(s) \in SchedState /\ SuspendsNone(s, Resched(s))
        /\ pc[cur] \in LockedPC => Resched(s).cur = s.cur
    BY <1>1, ReschedState
  <2>2. QED BY <1>1, <1>2, <2>1 DEF SuspendsNone
<1>4. TypeOK'
  BY <1>3 DEF TypeOK
<1>5. WantKnown' /\ PendingOnlyInTake' /\ VictimKnown'
  BY DEF WantKnown, PendingOnlyInTake, VictimKnown
<1>6. WaitersListed' /\ TimersAgree'
  BY <1>3, WaitsKept
<1>7. OnlyRunningHoldsLock'
  BY <1>3, LockKept
<1>8. OwnerConsistent'
  BY OwnersKept
<1>9. QED BY <1>4, <1>5, <1>6, <1>7, <1>8

\* rt_thread_mdelay: the thread suspends itself, pending on nothing.
LEMMA SleepStep ==
  ASSUME OwnersInv, NEW t \in Thread, Sleep(t)
  PROVE  OwnersInv'
<1> USE DEF OwnersInv, Sleep, codeVars, mutexVars
<1> DEFINE s == Suspend(sched, t)
<1>1. s \in SchedState /\ s.stat = [sched.stat EXCEPT ![t] = "suspend"]
  BY SuspendState DEF TypeOK
<1>2. sched' = Schedule(s)
  OBVIOUS
<1> HIDE DEF s
<1>3. sched' \in SchedState /\ SuspendsNone(s, sched')
  BY <1>1, <1>2, ScheduleState
<1>4. \A x \in Thread \ {t} : sched'.stat[x] = "suspend" => sched.stat[x] = "suspend"
  BY <1>1, <1>3 DEF SuspendsNone, TypeOK, SchedState
<1>5. TypeOK'
  <2>1. timer' \in [Thread -> BOOLEAN] /\ ttmr' \in [Thread -> BOOLEAN]
    BY DEF TypeOK
  <2>2. QED BY <1>3, <2>1 DEF TypeOK
<1>6. WantKnown' /\ PendingOnlyInTake' /\ VictimKnown'
  BY DEF WantKnown, PendingOnlyInTake, VictimKnown
<1>7. WaitersListed'
  <2>1. pending[t] = NoMutex
    BY DEF PendingOnlyInTake, At
  <2>2. QED BY <1>4, <2>1 DEF WaitersListed
<1>8. TimersAgree'
  <2>1. timer'[t] = TRUE /\ ttmr'[t] = TRUE
    BY DEF TypeOK
  <2>2. \A x \in Thread \ {t} : timer'[x] = timer[x] /\ ttmr'[x] = ttmr[x]
    BY DEF TypeOK
  <2>3. QED BY <1>4, <2>1, <2>2 DEF TimersAgree
<1>9. OnlyRunningHoldsLock'
  <2>1. pc[cur] \notin LockedPC
    BY DEF At, LockedPC
  <2>2. QED BY <2>1, LockKept
<1>10. OwnerConsistent'
  BY OwnersKept
<1>11. QED BY <1>5, <1>6, <1>7, <1>8, <1>9, <1>10

\* RT_THREAD_CTRL_CHANGE_PRIORITY
LEMMA ChangePriorityStep ==
  ASSUME OwnersInv, NEW t \in Thread, NEW x \in Thread, NEW p \in SetPrios,
         ChangePriority(t, x, p)
  PROVE  OwnersInv'
<1> USE DEF OwnersInv, ChangePriority, codeVars, mutexVars, threadVars
<1>1. p \in Prio /\ sched \in SchedState
  BY MutexAssumption DEF TypeOK
<1>2. /\ sched' \in SchedState /\ sched'.cur = sched.cur
      /\ \A y \in Thread : sched'.stat[y] = "suspend" <=> sched.stat[y] = "suspend"
  BY <1>1, ChangePrioState
<1>3. TypeOK'
  BY <1>2 DEF TypeOK
<1>4. WantKnown' /\ PendingOnlyInTake' /\ VictimKnown'
  BY DEF WantKnown, PendingOnlyInTake, VictimKnown
<1>5. WaitersListed' /\ TimersAgree'
  BY <1>2, WaitsKept DEF SuspendsNone
<1>6. OnlyRunningHoldsLock'
  BY <1>2, LockKept
<1>7. OwnerConsistent'
  BY OwnersKept
<1>8. QED BY <1>3, <1>4, <1>5, <1>6, <1>7
-----------------------------------------------------------------------------
(* Closing threads and detaching mutexes                                    *)

\* _thread_exit: the thread that closes holds no place on a wait list.
LEMMA ExitStep ==
  ASSUME OwnersInv, NEW t \in Thread, Exit(t)
  PROVE  OwnersInv'
<1> USE DEF OwnersInv, Exit, mutexVars, threadVars
<1>1. /\ sched' \in SchedState /\ sched'.cur = sched.cur
      /\ sched'.stat = [sched.stat EXCEPT ![t] = "close"]
  BY CloseState DEF TypeOK
<1>2. SuspendsNone(sched, sched')
  BY <1>1 DEF SuspendsNone, TypeOK, SchedState
<1>3. TypeOK'
  BY <1>1 DEF TypeOK, PC
<1>4. WantKnown' /\ PendingOnlyInTake' /\ VictimKnown'
  BY DEF WantKnown, PendingOnlyInTake, VictimKnown, At, TypeOK
<1>5. WaitersListed' /\ TimersAgree'
  BY <1>2, WaitsKept
<1>6. OnlyRunningHoldsLock'
  BY <1>1, LockMoved DEF At
<1>7. OwnerConsistent'
  BY OwnersKept
<1>8. QED BY <1>3, <1>4, <1>5, <1>6, <1>7

\* rt_thread_delete of another thread, which may wait for a mutex
LEMMA DeleteStep ==
  ASSUME OwnersInv, NEW t \in Thread, NEW x \in Thread, Delete(t, x)
  PROVE  OwnersInv'
<1> USE DEF OwnersInv, Delete
<1> DEFINE m  == pending[x]
           q  == [n \in Mutexes |-> Unlink(waitq[n], x)]
           mp == [mprio EXCEPT ![m] = HeadPrio(q[m], sched.prio)]
           o  == owner[m]
           s  == Close(sched, x)
           p  == MutexPrio(o, taken[o], mp, ceiling)
<1>1. /\ s \in SchedState /\ s.cur = sched.cur
      /\ s.stat = [sched.stat EXCEPT ![x] = "close"]
  BY CloseState DEF TypeOK
<1>2. /\ waitq' \in [Mutexes -> Seq(Thread)] /\ waitq' = q
      /\ \A n \in Mutexes : \A y \in ToSet(waitq[n]) : y # x => y \in ToSet(waitq'[n])
  BY UnlinkedEverywhere
<1>3. /\ sched' \in SchedState /\ sched'.cur = sched.cur
      /\ \A y \in Thread : sched'.stat[y] = "suspend" <=> s.stat[y] = "suspend"
      /\ chain' \in Thread \cup {NoThread}
      /\ mprio' \in [Mutexes -> 0 .. PrioMax]
  <2>1. CASE m = NoMutex
    BY <1>1, <2>1 DEF TypeOK
  <2>2. CASE m # NoMutex
    <3> HIDE DEF s, q
    <3>1. /\ mprio' = mp
          /\ IF o # NoThread /\ s.prio[o] = s.prio[x]
             THEN UpdatePriority(s, o, p)
             ELSE sched' = s /\ UNCHANGED chain
      BY <2>2 DEF s, q
    <3>2. m \in Mutexes /\ q[m] \in Seq(Thread)
      BY <1>2, <2>2 DEF TypeOK
    <3>3. HeadPrio(q[m], sched.prio) \in 0 .. PrioMax
      BY <3>2, HeadPrioType DEF TypeOK, SchedState
    <3>4. mp \in [Mutexes -> 0 .. PrioMax] /\ o \in Thread \cup {NoThread}
          /\ chain \in Thread \cup {NoThread}
      BY <3>2, <3>3 DEF TypeOK
    <3> HIDE DEF mp
    <3>5. o \in Thread => p \in Prio
      BY <3>4, MutexPrioType DEF TypeOK
    <3> HIDE DEF p, o
    <3>6. CASE o # NoThread /\ s.prio[o] = s.prio[x]
      <4>1. o \in Thread /\ p \in Prio /\ UpdatePriority(s, o, p)
        BY <3>1, <3>4, <3>5, <3>6
      <4>2. QED BY <1>1, <3>1, <3>4, <4>1, UpdatePriorityStep
    <3>7. CASE ~(o # NoThread /\ s.prio[o] = s.prio[x])
      BY <1>1, <3>1, <3>4, <3>7
    <3>8. QED BY <3>6, <3>7
  <2>3. QED BY <2>1, <2>2
<1>4. SuspendsNone(sched, sched') /\ sched'.stat[x] # "suspend"
  BY <1>1, <1>3 DEF SuspendsNone, TypeOK, SchedState
<1> HIDE DEF s, q, mp, p
<1>5. /\ UNCHANGED <<owner, hold, ceiling, live, taken, err, ttmr, want>>
      /\ pending' = [pending EXCEPT ![x] = NoMutex]
      /\ timer' = [timer EXCEPT ![x] = FALSE]
      /\ pc' = [pc EXCEPT ![t] = "free", ![x] = "closed"]
      /\ victim' = x
      /\ x # t /\ t = cur /\ pc[t] = "run"
  BY DEF At
<1>6. TypeOK'
  <2>1. pending' \in [Thread -> Mutexes \cup {NoMutex}]
    BY <1>5 DEF TypeOK
  <2>2. timer' \in [Thread -> BOOLEAN]
    BY <1>5 DEF TypeOK
  <2>3. pc' \in [Thread -> PC]
    <3>1. pc \in [Thread -> PC] /\ "free" \in PC /\ "closed" \in PC
      BY DEF TypeOK, PC
    <3> HIDE DEF OwnersInv, Delete
    <3>2. QED BY <1>5, <3>1
  <2>4. QED BY <1>2, <1>3, <1>5, <2>1, <2>2, <2>3 DEF TypeOK
<1>7. WantKnown' /\ VictimKnown'
  BY <1>5 DEF WantKnown, VictimKnown, TypeOK
<1>8. PendingOnlyInTake'
  BY <1>5 DEF PendingOnlyInTake, TypeOK
<1>9. WaitersListed' /\ TimersAgree'
  <2>1. \A y \in Thread : sched'.stat[y] = "suspend" => y # x /\ sched.stat[y] = "suspend"
    BY <1>4 DEF SuspendsNone
  <2>2. WaitersListed'
    BY <1>2, <1>5, <2>1 DEF WaitersListed, TypeOK
  <2>3. TimersAgree'
    BY <1>5, <2>1 DEF TimersAgree, TypeOK
  <2>4. QED BY <2>2, <2>3
<1>10. OnlyRunningHoldsLock'
  BY <1>3, <1>5 DEF OnlyRunningHoldsLock, cur, TypeOK, LockedPC
<1>11. OwnerConsistent'
  BY <1>5, OwnersKept
<1>12. QED BY <1>6, <1>7, <1>8, <1>9, <1>10, <1>11

\* The end of the loop over the taken mutexes.
LEMMA CloseReturnStep ==
  ASSUME OwnersInv, NEW t \in Thread, CloseReturn(t)
  PROVE  OwnersInv'
<1> USE DEF OwnersInv, CloseReturn, threadVars
<1>1. ExitCritical(sched) \in SchedState /\ SuspendsNone(sched, ExitCritical(sched))
  BY ExitCriticalState DEF TypeOK
<1>2. /\ Schedule(ExitCritical(sched)) \in SchedState
      /\ SuspendsNone(ExitCritical(sched), Schedule(ExitCritical(sched)))
  BY <1>1, ScheduleState
<1>3. sched' \in SchedState /\ SuspendsNone(sched, sched')
  BY <1>1, <1>2 DEF SuspendsNone
<1>4. victim \in Thread
  BY DEF VictimKnown, At
<1>5. TypeOK'
  <2>1. hold' = hold \/ hold' = [m \in Mutexes |-> IF m \in taken[victim] THEN 1 ELSE hold[m]]
    OBVIOUS
  <2>2. 1 \in 0 .. HoldMax /\ hold \in [Mutexes -> 0 .. HoldMax]
    BY MutexAssumption DEF TypeOK
  <2>3. hold' \in [Mutexes -> 0 .. HoldMax]
    BY <2>1, <2>2
  <2>4. QED BY <1>3, <2>3 DEF TypeOK, PC
<1>6. WantKnown' /\ PendingOnlyInTake' /\ VictimKnown'
  <2>1. VictimKnown'
    BY DEF VictimKnown, At, OnlyRunningHoldsLock, LockedPC, TypeOK
  <2>2. WantKnown' /\ PendingOnlyInTake'
    BY DEF WantKnown, PendingOnlyInTake, At, TypeOK
  <2>3. QED BY <2>1, <2>2
<1>7. WaitersListed' /\ TimersAgree'
  BY <1>3, WaitsKept
<1>8. OnlyRunningHoldsLock'
  BY LockMoved DEF At, LockedPC
<1>9. OwnerConsistent'
  BY <1>4, ThreadAssumption DEF OwnerConsistent, TypeOK
<1>10. QED BY <1>5, <1>6, <1>7, <1>8, <1>9

\* rt_mutex_detach begins: no waiter, owner or list has been touched yet.
LEMMA DetachCallStep ==
  ASSUME OwnersInv, NEW t \in Thread, NEW m \in Mutexes, Detach(t, m)
  PROVE  OwnersInv'
<1> USE DEF OwnersInv, Detach, mutexVars, threadVars
<1>1. TypeOK'
  BY DEF TypeOK, PC
<1>2. WantKnown' /\ PendingOnlyInTake' /\ VictimKnown'
  BY DEF WantKnown, PendingOnlyInTake, VictimKnown, At, TypeOK
<1>3. WaitersListed' /\ TimersAgree'
  BY WaitsKept DEF SuspendsNone
<1>4. OnlyRunningHoldsLock'
  BY LockMoved DEF At
<1>5. OwnerConsistent'
  BY OwnersKept
<1>6. QED BY <1>1, <1>2, <1>3, <1>4, <1>5

\* One waiter of a detached mutex is woken.
LEMMA DetachWakeStep ==
  ASSUME OwnersInv, NEW t \in Thread, DetachWake(t)
  PROVE  OwnersInv'
<1> USE DEF OwnersInv, DetachWake, codeVars
<1> DEFINE m == want[t]
           q == waitq[m]
           n == Head(q)
<1>1. m \in Mutexes /\ q \in Seq(Thread) /\ q # <<>>
  BY DEF WantKnown, TypeOK, At
<1>2. /\ n \in Thread /\ Tail(q) \in Seq(Thread)
      /\ \A y \in ToSet(q) : y # n => y \in ToSet(Tail(q))
  <2> HIDE DEF q, OwnersInv
  <2>1. /\ n \in Thread /\ Tail(q) \in Seq(Thread) /\ Len(Tail(q)) = Len(q) - 1
        /\ \A k \in 1 .. Len(Tail(q)) : Tail(q)[k] = q[k + 1]
        /\ Len(q) \in Nat /\ n = q[1]
    BY <1>1, HeadTailProperties, LenProperties
  <2> DEFINE r == Tail(q)
  <2>2. \A y : y \in ToSet(q) <=> \E k \in 1 .. Len(q) : q[k] = y
    BY <1>1, InToSet
  <2>3. r \in Seq(Thread) /\ \A k \in 2 .. Len(q) : k - 1 \in 1 .. Len(r) /\ r[k - 1] = q[k]
    BY <2>1
  <2> HIDE DEF r
  <2>4. \A y : y \in ToSet(r) <=> \E k \in 1 .. Len(r) : r[k] = y
    BY <2>3, InToSet
  <2>5. \A y \in ToSet(q) : y # n => y \in ToSet(r)
    BY <2>1, <2>2, <2>3, <2>4
  <2>6. QED BY <2>1, <2>5 DEF r
<1>3. /\ sched' = Insert(sched, n) /\ waitq' = [waitq EXCEPT ![m] = Tail(@)]
      /\ err' = [err EXCEPT ![n] = "error"]
      /\ timer' = [timer EXCEPT ![n] = FALSE] /\ ttmr' = [ttmr EXCEPT ![n] = FALSE]
      /\ UNCHANGED <<owner, hold, mprio, ceiling, live, taken, pending, codeVars>>
  OBVIOUS
<1> HIDE DEF n
<1>4. /\ sched' \in SchedState /\ sched'.cur = sched.cur
      /\ sched'.stat[n] # "suspend" /\ SuspendsNone(sched, sched')
  <2>1. sched \in SchedState
    BY DEF TypeOK
  <2>2. /\ Insert(sched, n) \in SchedState /\ Insert(sched, n).cur = sched.cur
        /\ Insert(sched, n).stat[n] \in {"ready", "running"}
        /\ \A y \in Thread \ {n} : Insert(sched, n).stat[y] = sched.stat[y]
    BY <1>2, <2>1, InsertState
  <2>3. QED BY <1>3, <2>2 DEF SuspendsNone
<1>5. TypeOK'
  <2>1. /\ waitq' \in [Mutexes -> Seq(Thread)]
        /\ err' \in [Thread -> {"ok", "timeout", "error"}]
        /\ timer' \in [Thread -> BOOLEAN] /\ ttmr' \in [Thread -> BOOLEAN]
    BY <1>1, <1>2, <1>3 DEF TypeOK
  <2>2. QED BY <1>3, <1>4, <2>1 DEF TypeOK
<1>6. WantKnown' /\ PendingOnlyInTake' /\ VictimKnown'
  BY <1>3 DEF WantKnown, PendingOnlyInTake, VictimKnown
<1>7. WaitersListed' /\ TimersAgree'
  <2>1. \A k \in Mutexes : \A y \in ToSet(waitq[k]) : y # n => y \in ToSet(waitq'[k])
    BY <1>1, <1>2, <1>3 DEF TypeOK
  <2>2. \A y \in Thread \ {n} : timer'[y] = timer[y] /\ ttmr'[y] = ttmr[y]
    BY <1>3 DEF TypeOK
  <2>3. QED BY <1>2, <1>3, <1>4, <2>1, <2>2, WaitsKeptButOne
<1>8. OnlyRunningHoldsLock'
  BY <1>3, <1>4, LockKept
<1>9. OwnerConsistent'
  BY <1>3, OwnersKept
<1>10. QED BY <1>5, <1>6, <1>7, <1>8, <1>9

\* The mutex leaves the list of its owner and is gone.
LEMMA DetachReturnStep ==
  ASSUME OwnersInv, NEW t \in Thread, DetachReturn(t)
  PROVE  OwnersInv'
<1> USE DEF OwnersInv, DetachReturn, threadVars
<1> DEFINE m == want[t]
           o == owner[m]
           left == taken[o] \ {m}
           s == CheckedPrio(o, m, left)
           r == IF ChecksPrio(o, m) THEN Resched(s) ELSE s
<1>1. m \in Mutexes /\ sched \in SchedState /\ o \in Thread \cup {NoThread}
  BY DEF WantKnown, TypeOK, At
<1>2. sched' \in SchedState /\ SuspendsNone(sched, sched')
  <2>1. CASE o = NoThread
    BY <1>1, <2>1, ExitCriticalState
  <2>2. CASE o # NoThread
    <3>1. o \in Thread /\ left \in SUBSET Mutexes
      BY <1>1, <2>2 DEF TypeOK
    <3> HIDE DEF left
    <3>2. /\ s \in SchedState
          /\ \A x \in Thread : s.stat[x] = "suspend" <=> sched.stat[x] = "suspend"
      BY <3>1, CheckedPrioState
    <3> HIDE DEF s
    <3>3. r \in SchedState /\ SuspendsNone(s, r)
      BY <3>2, ReschedState DEF SuspendsNone
    <3>4. sched' = ExitCritical(r)
      BY <2>2 DEF s, left
    <3> HIDE DEF r
    <3>5. sched' \in SchedState /\ SuspendsNone(r, sched')
      BY <3>3, <3>4, ExitCriticalState
    <3>6. QED BY <3>2, <3>3, <3>5 DEF SuspendsNone
  <2>3. QED BY <2>1, <2>2
<1>3. taken' = IF o = NoThread THEN taken ELSE [taken EXCEPT ![o] = left]
  OBVIOUS
<1>4. /\ live' = [live EXCEPT ![m] = FALSE]
      /\ pc' = [pc EXCEPT ![t] = "run"] /\ want' = [want EXCEPT ![t] = NoMutex]
      /\ UNCHANGED <<owner, hold, mprio, ceiling, waitq, threadVars, chain, victim>>
  OBVIOUS
<1>5. TypeOK'
  <2>1. taken' \in [Thread -> SUBSET Mutexes]
    BY <1>1, <1>3 DEF TypeOK
  <2>2. QED BY <1>2, <1>4, <2>1 DEF TypeOK, PC
<1>6. WantKnown' /\ PendingOnlyInTake' /\ VictimKnown'
  BY <1>4 DEF WantKnown, PendingOnlyInTake, VictimKnown, At, TypeOK
<1>7. WaitersListed' /\ TimersAgree'
  BY <1>2, <1>4, WaitsKept
<1>8. OnlyRunningHoldsLock'
  BY <1>4, LockMoved DEF At, LockedPC
<1>9. OwnerConsistent'
  BY <1>1, <1>3, <1>4, ThreadAssumption DEF OwnerConsistent, TypeOK
<1>10. QED BY <1>5, <1>6, <1>7, <1>8, <1>9
-----------------------------------------------------------------------------
(* The first part of the invariant                                         *)

\* At start no mutex is owned and no thread holds, waits or has a timer.
LEMMA InitOwners == Init => OwnersInv
<1> SUFFICES ASSUME Init PROVE OwnersInv
  OBVIOUS
<1> USE DEF Init
<1>1. sched \in SchedState
  BY ThreadAssumption DEF AllAsleep, SchedState, Stat, Prio
<1>2. TypeOK
  <2>1. NoPrio \in 0 .. PrioMax /\ 0 \in 0 .. HoldMax
    BY ThreadAssumption, MutexAssumption DEF NoPrio
  <2>2. QED BY <1>1, <2>1 DEF TypeOK, PC
<1>3. WantKnown /\ PendingOnlyInTake /\ WaitersListed /\ TimersAgree /\ VictimKnown
  BY DEF WantKnown, PendingOnlyInTake, WaitersListed, TimersAgree, VictimKnown
<1>4. OnlyRunningHoldsLock
  BY DEF OnlyRunningHoldsLock, LockedPC
<1>5. OwnerConsistent
  BY ThreadAssumption DEF OwnerConsistent
<1>6. QED BY <1>2, <1>3, <1>4, <1>5 DEF OwnersInv

\* Every step of the mutex code keeps owners, hold counts, held lists, timers
\* and the critical section in agreement.
LEMMA NextOwners == OwnersInv /\ [Next]_vars => OwnersInv'
<1> SUFFICES ASSUME OwnersInv, [Next]_vars PROVE OwnersInv'
  OBVIOUS
<1>1. CASE UNCHANGED vars
  <2>1. UNCHANGED <<sched, owner, hold, mprio, ceiling, waitq, live, taken,
                    pending, err, timer, ttmr, pc, want, chain, victim>>
    BY <1>1 DEF vars, mutexVars, threadVars, codeVars
  <2>2. QED BY <2>1 DEF OwnersInv, TypeOK, WantKnown, PendingOnlyInTake, WaitersListed,
                        TimersAgree, OnlyRunningHoldsLock, VictimKnown, OwnerConsistent, cur
<1>2. ASSUME NEW t \in Thread, Call(t) PROVE OwnersInv'
  BY <1>2, TakeAgainStep, TakeFreeStep, TakeBlockStep, ReleaseAgainStep, ReleaseStep,
     DetachCallStep, SetCeilingStep, SleepStep, ChangePriorityStep, ResumeStep,
     ExitStep, DeleteStep DEF Call
<1>3. ASSUME NEW t \in Thread, Continue(t) PROVE OwnersInv'
  BY <1>3, TakeArmStep, TakeMoveStep, TakeFailedStep, TakeReturnStep,
     SetCeilingReturnStep, FreeTakenStep, CloseReturnStep, DetachWakeStep,
     DetachReturnStep DEF Continue
<1>4. QED BY <1>1, <1>2, <1>3, TimerExpiresStep, SliceEndsStep, PropagateStep DEF Next

-----------------------------------------------------------------------------
(* The lists: the second part of the invariant                             *)

\* What the IPC code calls of the scheduler leaves the ready queues and the
\* wait state of every other thread in order.
LEMMA ChangePrioInv ==
  ASSUME NEW s \in SchedState, SchedInv(s), NEW t \in Thread, NEW p \in Prio
  PROVE  /\ SchedInv(ChangePrio(s, t, p))
         /\ ChangePrio(s, t, p).stat = s.stat
         /\ ChangePrio(s, t, p).cur = s.cur
         /\ ChangePrio(s, t, p).prio = [s.prio EXCEPT ![t] = p]
<1>1. /\ QueuesAgree(ChangePrio(s, t, p))
      /\ ChangePrio(s, t, p).stat = s.stat
      /\ ChangePrio(s, t, p).prio = [s.prio EXCEPT ![t] = p]
  BY ChangePrioQueues DEF SchedInv, OneRunning
<1>2. ChangePrio(s, t, p).cur = s.cur
  BY ChangePrioState
<1>3. QED BY <1>1, <1>2 DEF SchedInv, OneRunning

\* _thread_update_priority changes one priority and nothing else that the
\* proofs look at: the ready queues move the thread with it.
LEMMA UpdatePriorityInv ==
  ASSUME NEW s \in SchedState, SchedInv(s), NEW t \in Thread, NEW p \in Prio,
         UpdatePriority(s, t, p)
  PROVE  /\ SchedInv(sched')
         /\ sched'.stat = s.stat
         /\ sched'.cur = s.cur
         /\ sched'.prio = [s.prio EXCEPT ![t] = p]
<1>1. CASE p # s.prio[t]
  BY <1>1, ChangePrioInv DEF UpdatePriority
<1>2. CASE p = s.prio[t]
  BY <1>2 DEF UpdatePriority, SchedState
<1>3. QED BY <1>1, <1>2

\* The priority that a release works out for the thread that gives the mutex up
\* changes that thread's priority at most, and neither states nor the CPU.
LEMMA CheckedPrioInv ==
  ASSUME TypeOK, SchedInv(sched), NEW t \in Thread, NEW m, NEW held \in SUBSET Mutexes
  PROVE  /\ CheckedPrio(t, m, held) \in SchedState
         /\ SchedInv(CheckedPrio(t, m, held))
         /\ CheckedPrio(t, m, held).stat = sched.stat
         /\ CheckedPrio(t, m, held).cur = sched.cur
         /\ \A x \in Thread \ {t} : CheckedPrio(t, m, held).prio[x] = sched.prio[x]
<1> DEFINE p == MutexPrio(t, held, mprio, ceiling)
<1>1. p \in Prio /\ sched \in SchedState
  BY MutexPrioType DEF TypeOK
<1>2. CheckedPrio(t, m, held) = IF ChecksPrio(t, m) THEN ChangePrio(sched, t, p) ELSE sched
  BY DEF CheckedPrio
<1> HIDE DEF p
<1>3. /\ SchedInv(ChangePrio(sched, t, p)) /\ ChangePrio(sched, t, p) \in SchedState
      /\ ChangePrio(sched, t, p).stat = sched.stat
      /\ ChangePrio(sched, t, p).cur = sched.cur
      /\ ChangePrio(sched, t, p).prio = [sched.prio EXCEPT ![t] = p]
  BY <1>1, ChangePrioInv, ChangePrioState
<1>4. QED BY <1>1, <1>2, <1>3 DEF SchedState

\* rt_schedule puts nobody to sleep and wakes nobody, and changes no priority.
LEMMA ReschedInv ==
  ASSUME NEW s \in SchedState, SchedInv(s)
  PROVE  /\ Resched(s) \in SchedState
         /\ SchedInv(Resched(s))
         /\ SameSleepers(s, Resched(s))
         /\ Resched(s).prio = s.prio
BY ScheduleQueues, ScheduleLockedQueues DEF Resched, SameSleepers

\* Thread x, which was not ready, is made ready and rt_schedule is called.
LEMMA WakeInv ==
  ASSUME NEW s \in SchedState, SchedInv(s), NEW x \in Thread, s.stat[x] # "ready"
  PROVE  /\ Resched(Insert(s, x)) \in SchedState
         /\ SchedInv(Resched(Insert(s, x)))
         /\ Resched(Insert(s, x)).prio = s.prio
         /\ \A y \in Thread : Resched(Insert(s, x)).stat[y] = "suspend"
                                <=> s.stat[y] = "suspend" /\ y # x
<1> DEFINE r == Insert(s, x)
<1>1. /\ r \in SchedState /\ SchedInv(r) /\ r.prio = s.prio
      /\ r.stat = [s.stat EXCEPT ![x] = IF x = s.cur THEN "running" ELSE "ready"]
  BY InsertInv
<1> HIDE DEF r
<1>2. /\ Resched(r) \in SchedState /\ SchedInv(Resched(r))
      /\ SameSleepers(r, Resched(r)) /\ Resched(r).prio = r.prio
  BY <1>1, ReschedInv
<1>3. \A y \in Thread : r.stat[y] = "suspend" <=> s.stat[y] = "suspend" /\ y # x
  BY <1>1 DEF SchedState
<1>4. QED BY <1>1, <1>2, <1>3 DEF r, SameSleepers

\* A step that changes the wait state of thread x alone.
LEMMA ListsButOne ==
  ASSUME OwnersInv, OwnersInv', ListsInv, SchedInv(sched'), NEW x \in Thread,
         \A y \in Thread \ {x} :
           /\ sched'.stat[y] = "suspend" <=> sched.stat[y] = "suspend"
           /\ pending'[y] = pending[y] /\ want'[y] = want[y]
           /\ timer'[y] = timer[y] /\ err'[y] = err[y]
           /\ \/ pc'[y] = pc[y]
              \/ pc'[y] \notin {"arm", "block", "wait"} /\ sched.stat[y] # "suspend",
         \A m \in Mutexes : owner'[m] \in Thread /\ owner'[m] # x => owner[m] = owner'[m],
         \A m \in Mutexes :
           /\ IsInjective(waitq'[m])
           /\ \A y \in ToSet(waitq'[m]) : y # x => y \in ToSet(waitq[m])
           /\ x \in ToSet(waitq'[m]) => sched'.stat[x] = "suspend" /\ pending'[x] = m,
         WaitRight(x)'
  PROVE  ListsInv'
<1>1. ASSUME NEW m \in Mutexes PROVE ListRight(m)'
  <2>1. waitq'[m] \in Seq(Thread)
    BY DEF OwnersInv, TypeOK
  <2>2. \A y : y \in ToSet(waitq'[m]) => y \in Thread
    BY <2>1, InToSet
  <2>3. QED BY <2>2 DEF ListRight, ListsInv
<1>2. ASSUME NEW y \in Thread PROVE WaitRight(y)'
  <2>1. CASE y = x
    BY <2>1
  <2>2. CASE y # x
    <3>1. WaitRight(y) /\ y \in Thread \ {x}
      BY <2>2 DEF ListsInv
    <3>2. CASE pc'[y] = pc[y]
      <4>1. pc[y] \in {"arm", "block", "wait"} => want[y] \in Mutexes
        BY DEF OwnersInv, WantKnown
      <4>2. pc[y] \in {"arm", "block", "wait"} /\ owner'[want[y]] = y => owner[want[y]] = y
        BY <2>2, <4>1
      <4>3. QED BY <3>1, <3>2, <4>2 DEF WaitRight
    <3>3. CASE pc'[y] \notin {"arm", "block", "wait"} /\ sched.stat[y] # "suspend"
      BY <3>1, <3>3 DEF WaitRight
    <3>4. QED BY <3>1, <3>2, <3>3
  <2>3. QED BY <2>1, <2>2
<1>3. QED BY <1>1, <1>2 DEF ListsInv

\* A step that leaves the lists, who is suspended, and what is pending alone,
\* and that moves at most a thread that is not suspended to a place outside of
\* a take.
LEMMA ListsAlone ==
  ASSUME OwnersInv, OwnersInv', ListsInv, SchedInv(sched'),
         \A y \in Thread :
           /\ sched'.stat[y] = "suspend" <=> sched.stat[y] = "suspend"
           /\ \/ pc'[y] = pc[y] /\ want'[y] = want[y]
              \/ pc'[y] \notin {"arm", "block", "wait"} /\ sched.stat[y] # "suspend",
         \A m \in Mutexes : owner'[m] \in Thread /\ owner[m] # owner'[m]
                              => pc[owner'[m]] = "run",
         UNCHANGED <<waitq, timer, err>>,
         \A y \in Thread : sched.stat[y] = "suspend" => pending'[y] = pending[y]
  PROVE  ListsInv'
<1>1. ASSUME NEW m \in Mutexes PROVE ListRight(m)'
  <2>1. waitq[m] \in Seq(Thread)
    BY DEF OwnersInv, TypeOK
  <2>2. \A y : y \in ToSet(waitq[m]) => y \in Thread
    BY <2>1, InToSet
  <2>3. QED BY <2>2 DEF ListRight, ListsInv
<1>2. ASSUME NEW y \in Thread PROVE WaitRight(y)'
  <2>1. WaitRight(y)
    BY DEF ListsInv
  <2>2. pc[y] \in {"arm", "block", "wait"} => want[y] \in Mutexes
    BY DEF OwnersInv, WantKnown
  <2>3. pc[y] \in {"arm", "block", "wait"} /\ owner'[want[y]] = y => owner[want[y]] = y
    BY <2>2
  <2>4. QED BY <2>1, <2>3 DEF WaitRight
<1>3. QED BY <1>1, <1>2 DEF ListsInv

\* A thread that takes a step is not suspended, or is between its suspension
\* and the switch of a take.
LEMMA AtAwake ==
  ASSUME ListsInv, NEW t \in Thread, NEW l, At(t, l)
  PROVE  /\ l \notin {"arm", "block"} => sched.stat[t] # "suspend"
         /\ pc[t] = l /\ t = sched.cur
<1>1. WaitRight(t)
  BY DEF ListsInv
<1>2. QED BY <1>1 DEF At, WaitRight, LockedPC, cur

\* Taking a mutex that is free or its own, and moving on without waiting:
\* nobody is suspended or woken.
LEMMA MoveLists ==
  ASSUME IInv, OwnersInv', NEW t \in Thread,
         \/ \E m \in Mutexes : \/ TakeAgain(t, m) \/ ReleaseAgain(t, m) \/ Detach(t, m)
         \/ TakeGranted(t) \/ TakeReturn(t)
  PROVE  ListsInv'
<1> USE DEF IInv
<1>1. sched' = sched /\ SchedInv(sched')
  BY DEF ListsInv, TakeAgain, ReleaseAgain, Detach, TakeGranted, TakeReturn
<1>2. CASE \E m \in Mutexes : TakeAgain(t, m)
  <2>1. PICK m \in Mutexes : TakeAgain(t, m)
    BY <1>2
  <2>2. sched.stat[t] # "suspend" /\ pc[t] = "run"
    BY <2>1, AtAwake DEF TakeAgain
  <2>3. WaitRight(t)'
    BY <1>1, <2>1, <2>2 DEF TakeAgain, codeVars, WaitRight, ListsInv
  <2>4. \A y \in Thread \ {t} : err'[y] = err[y]
    BY <2>1 DEF TakeAgain, OwnersInv, TypeOK
  <2>5. UNCHANGED <<waitq, owner, pending, want, timer, pc>>
    BY <2>1 DEF TakeAgain, codeVars
  <2>6. QED BY <1>1, <2>2, <2>3, <2>4, <2>5, ListsButOne DEF ListsInv, ListRight
<1>3. CASE ~\E m \in Mutexes : TakeAgain(t, m)
  <2>1. UNCHANGED <<waitq, owner, timer, err>>
    BY <1>3 DEF ReleaseAgain, Detach, TakeGranted, TakeReturn, mutexVars, threadVars
  <2>2. /\ sched.stat[t] # "suspend"
        /\ \A y \in Thread \ {t} : pending'[y] = pending[y] /\ pc'[y] = pc[y] /\ want'[y] = want[y]
        /\ pc'[t] \notin {"arm", "block", "wait"}
    <3>1. CASE \E m \in Mutexes : ReleaseAgain(t, m)
      BY <3>1, AtAwake DEF ReleaseAgain, threadVars, codeVars
    <3>2. CASE \E m \in Mutexes : Detach(t, m)
      <4>1. PICK m \in Mutexes : Detach(t, m)
        BY <3>2
      <4>2. sched.stat[t] # "suspend"
        BY <4>1, AtAwake DEF Detach
      <4>3. QED BY <4>1, <4>2 DEF Detach, threadVars, OwnersInv, TypeOK
    <3>3. CASE TakeGranted(t)
      <4>1. sched.stat[t] # "suspend"
        BY <3>3, AtAwake DEF TakeGranted
      <4>2. pc \in [Thread -> PC] /\ want \in [Thread -> Mutexes \cup {NoMutex}]
        BY DEF OwnersInv, TypeOK
      <4>3. QED BY <3>3, <4>1, <4>2 DEF TakeGranted, threadVars
    <3>4. CASE TakeReturn(t)
      <4>1. sched.stat[t] # "suspend"
        BY <3>4, AtAwake DEF TakeReturn
      <4>2. QED BY <3>4, <4>1 DEF TakeReturn, OwnersInv, TypeOK
    <3>5. QED BY <1>3, <3>1, <3>2, <3>3, <3>4
  <2>3. \A y \in Thread : sched.stat[y] = "suspend" => pending'[y] = pending[y]
    BY <2>2
  <2>4. QED BY <1>1, <2>1, <2>2, <2>3, ListsAlone
<1>4. QED BY <1>2, <1>3

\* Taking a free mutex
LEMMA TakeFreeLists ==
  ASSUME IInv, OwnersInv', NEW t \in Thread, NEW m \in Mutexes, TakeFree(t, m)
  PROVE  ListsInv'
<1> USE DEF IInv
<1>1. sched.stat[t] # "suspend" /\ pc[t] = "run"
  BY AtAwake DEF TakeFree
<1>2. SchedInv(sched') /\ sched'.stat = sched.stat
  <2>1. sched \in SchedState /\ SchedInv(sched)
    BY DEF OwnersInv, TypeOK, ListsInv
  <2>2. CASE ceiling[m] < sched.prio[t]
    <3>1. ceiling[m] \in Prio
      <4>1. sched.prio[t] \in Prio /\ ceiling[m] \in 0 .. PrioMax
        BY DEF OwnersInv, TypeOK, SchedState
      <4>2. QED BY <2>2, <4>1, ThreadAssumption DEF Prio
    <3>2. QED BY <2>1, <2>2, <3>1, ChangePrioInv DEF TakeFree
  <2>3. CASE ~(ceiling[m] < sched.prio[t])
    BY <2>1, <2>3 DEF TakeFree
  <2>4. QED BY <2>2, <2>3
<1>3. UNCHANGED <<waitq, pending, want, timer, pc>>
  BY DEF TakeFree, codeVars
<1>4. /\ \A y \in Thread \ {t} : err'[y] = err[y]
      /\ \A n \in Mutexes : owner'[n] \in Thread /\ owner'[n] # t => owner[n] = owner'[n]
  BY DEF TakeFree, OwnersInv, TypeOK
<1>5. WaitRight(t)'
  BY <1>1, <1>2, <1>3 DEF WaitRight, ListsInv
<1>6. QED BY <1>1, <1>2, <1>3, <1>4, <1>5, ListsButOne DEF ListsInv, ListRight

\* The thread suspends itself and is queued for the mutex, once.
LEMMA TakeBlockLists ==
  ASSUME IInv, OwnersInv', NEW t \in Thread, NEW m \in Mutexes, TakeBlock(t, m)
  PROVE  ListsInv'
<1> USE DEF IInv
<1> DEFINE s == Suspend(sched, t)
           p == sched.prio[t]
           q == EnqueuePrio(waitq[m], t, sched.prio)
<1>1. /\ sched.stat[t] # "suspend" /\ pc[t] = "run" /\ t = sched.cur
      /\ sched \in SchedState /\ SchedInv(sched) /\ p \in Prio
      /\ owner[m] \in Thread /\ owner[m] # t
  <2>1. sched.stat[t] # "suspend" /\ pc[t] = "run" /\ t = sched.cur
    BY AtAwake DEF TakeBlock
  <2>2. sched \in SchedState /\ SchedInv(sched) /\ p \in Prio
    BY DEF ListsInv, OwnersInv, TypeOK, SchedState
  <2>3. owner[m] \in Thread /\ owner[m] # t
    BY DEF TakeBlock, OwnersInv, TypeOK
  <2>4. QED BY <2>1, <2>2, <2>3
<1>2. /\ s \in SchedState /\ SchedInv(s) /\ s.cur = sched.cur /\ s.prio = sched.prio
      /\ s.stat = [sched.stat EXCEPT ![t] = "suspend"]
  <2>1. /\ s \in SchedState /\ s.cur = sched.cur /\ s.prio = sched.prio
        /\ s.stat = [sched.stat EXCEPT ![t] = "suspend"]
    BY <1>1, SuspendState
  <2>2. QueuesAgree(s)
    BY <1>1, SuspendQueues DEF SchedInv
  <2>3. QED BY <1>1, <2>1, <2>2 DEF SchedInv, OneRunning, SchedState
<1> HIDE DEF s
<1>3. SchedInv(sched') /\ sched'.stat = s.stat
  <2>1. CASE p < mprio[m] /\ p < sched.prio[owner[m]]
    <3>1. UpdatePriority(s, owner[m], p)
      BY <2>1 DEF s, TakeBlock
    <3>2. QED BY <1>1, <1>2, <3>1, UpdatePriorityInv
  <2>2. CASE ~(p < mprio[m] /\ p < sched.prio[owner[m]])
    BY <1>2, <2>2 DEF s, TakeBlock
  <2>3. QED BY <2>1, <2>2
<1>4. sched'.stat[t] = "suspend" /\ \A y \in Thread \ {t} : sched'.stat[y] = sched.stat[y]
  BY <1>1, <1>2, <1>3 DEF SchedState
<1>5. \A n \in Mutexes : t \notin ToSet(waitq[n]) /\ IsInjective(waitq[n])
  BY <1>1 DEF ListsInv, ListRight
<1>6. q \in Seq(Thread) /\ ToSet(q) = ToSet(waitq[m]) \cup {t} /\ IsInjective(q)
  BY <1>5, EnqueuePrioSeq DEF OwnersInv, TypeOK
<1>7. \A n \in Mutexes : waitq'[n] = IF n = m THEN q ELSE waitq[n]
  BY DEF TakeBlock, OwnersInv, TypeOK
<1> HIDE DEF q
<1>8. /\ pending'[t] = m /\ want'[t] = m /\ err'[t] = "ok" /\ timer'[t] = FALSE
      /\ pc'[t] = "arm" /\ owner' = owner
      /\ \A y \in Thread \ {t} : /\ pending'[y] = pending[y] /\ want'[y] = want[y]
                                 /\ timer'[y] = timer[y] /\ err'[y] = err[y] /\ pc'[y] = pc[y]
  BY DEF TakeBlock, OwnersInv, TypeOK
<1>9. WaitRight(t)'
  BY <1>1, <1>4, <1>8 DEF WaitRight
<1>10. \A n \in Mutexes :
         /\ IsInjective(waitq'[n])
         /\ \A y \in ToSet(waitq'[n]) : y # t => y \in ToSet(waitq[n])
         /\ t \in ToSet(waitq'[n]) => sched'.stat[t] = "suspend" /\ pending'[t] = n
  BY <1>4, <1>5, <1>6, <1>7, <1>8
<1>11. QED BY <1>3, <1>4, <1>8, <1>9, <1>10, ListsButOne

\* The timeout of a thread that is still suspended starts, and the switch
LEMMA TakeWaitLists ==
  ASSUME IInv, OwnersInv', NEW t \in Thread, TakeArm(t) \/ TakeSwitch(t)
  PROVE  ListsInv'
<1> USE DEF IInv
<1>1. WaitRight(t) /\ sched \in SchedState /\ SchedInv(sched)
  BY DEF ListsInv, OwnersInv, TypeOK
<1>2. /\ SchedInv(sched')
      /\ \A y \in Thread : sched'.stat[y] = "suspend" <=> sched.stat[y] = "suspend"
  <2>1. CASE TakeArm(t)
    BY <1>1, <2>1 DEF TakeArm
  <2>2. CASE TakeSwitch(t)
    <3> DEFINE s == ExitCritical(sched)
    <3>1. s \in SchedState /\ SchedInv(s) /\ SameSleepers(sched, s)
      BY <1>1, ExitCriticalQueues
    <3>2. sched' = Schedule(s)
      BY <2>2 DEF TakeSwitch
    <3> HIDE DEF s
    <3>3. QED BY <3>1, <3>2, ScheduleQueues DEF SameSleepers
  <2>3. QED BY <2>1, <2>2
<1>3. UNCHANGED <<waitq, owner, pending, want, err>>
  BY DEF TakeArm, TakeSwitch, mutexVars, threadVars
<1>4. \A y \in Thread \ {t} : timer'[y] = timer[y] /\ pc'[y] = pc[y]
  BY DEF TakeArm, TakeSwitch, threadVars, OwnersInv, TypeOK
<1>5. WaitRight(t)'
  <2>1. CASE TakeArm(t)
    <3>1. pc[t] = "arm" /\ pc'[t] = "block"
      BY <2>1 DEF TakeArm, At, OwnersInv, TypeOK
    <3>2. QED BY <1>1, <1>2, <1>3, <3>1 DEF WaitRight
  <2>2. CASE TakeSwitch(t)
    <3>1. pc[t] = "block" /\ pc'[t] = "wait" /\ timer' = timer
      BY <2>2 DEF TakeSwitch, At, OwnersInv, TypeOK, threadVars
    <3>2. QED BY <1>1, <1>2, <1>3, <3>1 DEF WaitRight
  <2>3. QED BY <2>1, <2>2
<1>6. QED BY <1>2, <1>3, <1>4, <1>5, ListsButOne DEF ListsInv, ListRight

\* A take that failed, and other steps that change priorities only
LEMMA TakeFailedLists ==
  ASSUME IInv, OwnersInv', NEW t \in Thread, TakeFailed(t)
  PROVE  ListsInv'
<1> USE DEF IInv
<1> DEFINE m == want[t]
           o == owner[m]
           mp == [mprio EXCEPT ![m] = HeadPrio(waitq[m], sched.prio)]
           p == MutexPrio(o, taken[o], mp, ceiling)
<1>1. /\ m \in Mutexes /\ o \in Thread \cup {NoThread}
      /\ sched \in SchedState /\ SchedInv(sched)
      /\ waitq[m] \in Seq(Thread)
  BY DEF TakeFailed, At, OwnersInv, WantKnown, TypeOK, ListsInv
<1>2. SchedInv(sched') /\ sched'.stat = sched.stat
  <2>1. CASE o # NoThread /\ sched.prio[o] = sched.prio[t]
    <3>1. o \in Thread /\ UpdatePriority(sched, o, p)
      BY <1>1, <2>1 DEF TakeFailed
    <3>2. HeadPrio(waitq[m], sched.prio) \in 0 .. PrioMax
      BY <1>1, HeadPrioType DEF SchedState
    <3>3. mp \in [Mutexes -> 0 .. PrioMax]
      BY <3>2 DEF OwnersInv, TypeOK
    <3> HIDE DEF mp
    <3>4. p \in Prio
      BY <3>1, <3>3, MutexPrioType DEF OwnersInv, TypeOK
    <3> HIDE DEF p
    <3>5. QED BY <1>1, <3>1, <3>4, UpdatePriorityInv
  <2>2. CASE ~(o # NoThread /\ sched.prio[o] = sched.prio[t])
    BY <1>1, <2>2 DEF TakeFailed
  <2>3. QED BY <2>1, <2>2
<1>3. UNCHANGED <<owner, waitq, pending, timer, err, want>>
  BY DEF TakeFailed, threadVars
<1>4. sched.stat[t] # "suspend"
  BY AtAwake DEF TakeFailed
<1>5. pc' = [pc EXCEPT ![t] = "fail"] /\ pc \in [Thread -> PC]
  BY DEF TakeFailed, OwnersInv, TypeOK
<1>6. QED BY <1>2, <1>3, <1>4, <1>5, ListsAlone

\* The end of a section with the scheduler locked
LEMMA UnlockLists ==
  ASSUME IInv, OwnersInv', NEW t \in Thread,
         TakeUnlock(t) \/ SetCeilingReturn(t) \/ CloseReturn(t)
  PROVE  ListsInv'
<1> USE DEF IInv
<1>1. sched \in SchedState /\ SchedInv(sched)
  BY DEF OwnersInv, TypeOK, ListsInv
<1> DEFINE s == ExitCritical(sched)
<1>2. s \in SchedState /\ SchedInv(s) /\ SameSleepers(sched, s)
  BY <1>1, ExitCriticalQueues
<1>3. sched' = s \/ sched' = Schedule(s)
  BY DEF TakeUnlock, SetCeilingReturn, CloseReturn
<1> HIDE DEF s
<1>4. SchedInv(sched') /\ SameSleepers(sched, sched')
  BY <1>2, <1>3, ScheduleQueues DEF SameSleepers
<1>5. UNCHANGED <<owner, waitq, pending, timer, err, want>>
  BY DEF TakeUnlock, SetCeilingReturn, CloseReturn, mutexVars, threadVars
<1>6. PICK l \in {"run", "clear", "closed"} : pc' = [pc EXCEPT ![t] = l]
  BY DEF TakeUnlock, SetCeilingReturn, CloseReturn
<1>7. sched.stat[t] # "suspend" /\ pc \in [Thread -> PC]
  <2>1. At(t, "fail") \/ At(t, "ceil") \/ At(t, "free")
    BY DEF TakeUnlock, SetCeilingReturn, CloseReturn
  <2>2. sched.stat[t] # "suspend"
    BY <2>1, AtAwake
  <2>3. QED BY <2>2 DEF OwnersInv, TypeOK
<1>8. QED BY <1>4, <1>5, <1>6, <1>7, ListsAlone DEF SameSleepers

\* One turn of the loop of _thread_update_priority
LEMMA PropagateLists ==
  ASSUME IInv, OwnersInv', Propagate
  PROVE  ListsInv'
<1> USE DEF IInv
<1>0. PICK x \in Thread : x = chain
  BY DEF Propagate, OwnersInv, TypeOK
<1> DEFINE m  == pending[x]
           u  == Unlink(waitq[m], x)
           q  == Requeued(x, m)
           mp == [mprio EXCEPT ![m] = HeadPrio(q, sched.prio)]
           o  == owner[m]
           p  == MutexPrio(o, taken[o], mp, ceiling)
<1>1. /\ sched \in SchedState /\ SchedInv(sched)
      /\ UNCHANGED <<owner, taken, pending, timer, err, pc, want>>
  BY DEF Propagate, OwnersInv, TypeOK, ListsInv, threadVars
<1>2. CASE ~(sched.stat[x] = "suspend" /\ m # NoMutex)
  <2>1. UNCHANGED <<sched, waitq>>
    BY <1>0, <1>2 DEF Propagate
  <2>2. QED BY <1>1, <2>1, ListsAlone
<1>3. CASE sched.stat[x] = "suspend" /\ m # NoMutex
  <2>1. /\ m \in Mutexes /\ o \in Thread /\ x \in ToSet(waitq[m])
        /\ waitq[m] \in Seq(Thread) /\ IsInjective(waitq[m])
    BY <1>1, <1>3, ThreadAssumption
       DEF OwnersInv, WaitersListed, TypeOK, ListsInv, ListRight
  <2>2. /\ u \in Seq(Thread) /\ ToSet(u) = ToSet(waitq[m]) \ {x} /\ IsInjective(u)
    BY <2>1, UnlinkSeq
  <2>3. q = EnqueuePrio(u, x, sched.prio)
    BY DEF Requeued
  <2> HIDE DEF u
  <2>4. /\ q \in Seq(Thread) /\ ToSet(q) = ToSet(u) \cup {x} /\ IsInjective(q)
    BY <1>1, <2>2, <2>3, EnqueuePrioSeq
  <2> HIDE DEF q
  <2>5. ToSet(q) = ToSet(waitq[m])
    BY <2>1, <2>2, <2>4
  <2>6. /\ waitq' = [waitq EXCEPT ![m] = q]
        /\ IF GoesOn(o, p)
           THEN sched' = ChangePrio(sched, o, p) /\ chain' = o
           ELSE UNCHANGED sched /\ chain' = NoThread
    BY <1>0, <1>3 DEF Propagate, q
  <2>7. SchedInv(sched') /\ sched'.stat = sched.stat
    <3>1. HeadPrio(q, sched.prio) \in 0 .. PrioMax
      BY <1>1, <2>4, HeadPrioType DEF SchedState
    <3>2. mp \in [Mutexes -> 0 .. PrioMax]
      BY <3>1 DEF OwnersInv, TypeOK
    <3> HIDE DEF mp
    <3>3. p \in Prio
      BY <2>1, <3>2, MutexPrioType DEF OwnersInv, TypeOK
    <3> HIDE DEF p
    <3>4. sched' = sched \/ sched' = ChangePrio(sched, o, p)
      BY <2>6
    <3>5. PICK y \in Thread, k \in Prio : y = o /\ k = p
      BY <2>1, <3>3
    <3>6. /\ SchedInv(ChangePrio(sched, y, k))
          /\ ChangePrio(sched, y, k).stat = sched.stat
      BY <1>1, ChangePrioInv
    <3>7. QED BY <1>1, <3>4, <3>5, <3>6
  <2>8. \A n \in Mutexes : waitq'[n] = IF n = m THEN q ELSE waitq[n]
    BY <2>6 DEF OwnersInv, TypeOK
  <2>9. \A n \in Mutexes : ListRight(n)
    BY DEF ListsInv
  <2>10. \A n \in Mutexes :
           /\ IsInjective(waitq'[n])
           /\ \A y \in ToSet(waitq'[n]) : y # x => y \in ToSet(waitq[n])
           /\ x \in ToSet(waitq'[n]) => sched'.stat[x] = "suspend" /\ pending'[x] = n
    BY <1>1, <2>4, <2>5, <2>7, <2>8, <2>9 DEF ListRight
  <2>11. WaitRight(x)'
    BY <1>1, <2>7 DEF WaitRight, ListsInv
  <2>12. QED BY <1>1, <2>7, <2>10, <2>11, ListsButOne
<1>4. QED BY <1>2, <1>3

\* A release hands the mutex to the first waiter: in a state that the kernel
\* reaches that one can always be made ready.
LEMMA ReleasesToFirst ==
  ASSUME IInv, NEW t \in Thread, NEW m \in Mutexes, ReleaseLast(t, m)
  PROVE  LET left == taken[t] \ {m}
             s == CheckedPrio(t, m, left)
             q == waitq[m]
             n == Head(q)
         IN  /\ q = <<>> =>
                  /\ owner' = [owner EXCEPT ![m] = NoThread]
                  /\ hold' = [hold EXCEPT ![m] = 0]
                  /\ mprio' = [mprio EXCEPT ![m] = NoPrio]
                  /\ waitq' = [waitq EXCEPT ![m] = <<>>]
                  /\ taken' = [taken EXCEPT ![t] = left]
                  /\ sched' = IF ChecksPrio(t, m) THEN Resched(s) ELSE s
                  /\ UNCHANGED <<timer, pending>>
             /\ q # <<>> =>
                  /\ n \in ToSet(q)
                  /\ owner' = [owner EXCEPT ![m] = n]
                  /\ hold' = [hold EXCEPT ![m] = 1]
                  /\ mprio' = [mprio EXCEPT ![m] = HeadPrio(Tail(q), sched.prio)]
                  /\ waitq' = [waitq EXCEPT ![m] = Tail(q)]
                  /\ taken' = [taken EXCEPT ![t] = left, ![n] = @ \cup {m}]
                  /\ timer' = [timer EXCEPT ![n] = FALSE]
                  /\ pending' = [pending EXCEPT ![n] = NoMutex]
                  /\ sched' = Resched(Insert(s, n))
             /\ UNCHANGED <<ceiling, live, err>>
<1> DEFINE left == taken[t] \ {m}
           s    == CheckedPrio(t, m, left)
           q    == waitq[m]
           good == {i \in 1 .. Len(q) : CanReady(q[i])}
           free == good = {}
           i    == IF free THEN Len(q) ELSE Min(good)
           n    == q[i]
           rest == SubSeq(q, i + 1, Len(q))
<1>1. /\ q \in Seq(Thread) /\ Len(q) \in Nat
      /\ \A x : x \in ToSet(q) <=> \E k \in 1 .. Len(q) : q[k] = x
      /\ \A k \in 1 .. Len(q) : q[k] \in Thread
  <2>1. q \in Seq(Thread)
    BY DEF IInv, OwnersInv, TypeOK
  <2>2. QED BY <2>1, InToSet
<1>2. good = 1 .. Len(q)
  <2>1. ASSUME NEW k \in 1 .. Len(q) PROVE CanReady(q[k])
    <3>1. q[k] \in Thread /\ q[k] \in ToSet(q)
      BY <1>1
    <3>2. sched.stat[q[k]] = "suspend"
      BY <3>1 DEF IInv, ListsInv, ListRight
    <3>3. QED BY <3>1, <3>2 DEF IInv, OwnersInv, TimersAgree, CanReady
  <2>2. QED BY <2>1
<1>3. /\ owner' = [owner EXCEPT ![m] = IF free THEN NoThread ELSE n]
      /\ hold'  = [hold EXCEPT ![m] = IF free THEN 0 ELSE 1]
      /\ mprio' = [mprio EXCEPT ![m] = HeadPrio(rest, sched.prio)]
      /\ waitq' = [waitq EXCEPT ![m] = rest]
      /\ taken' = IF free
                  THEN [taken EXCEPT ![t] = left]
                  ELSE [taken EXCEPT ![t] = left, ![n] = @ \cup {m}]
      /\ timer' = IF free THEN timer ELSE [timer EXCEPT ![n] = FALSE]
      /\ pending' = IF free THEN pending ELSE [pending EXCEPT ![n] = NoMutex]
      /\ sched' = IF free
                  THEN IF ChecksPrio(t, m) THEN Resched(s) ELSE s
                  ELSE Resched(Insert(s, n))
      /\ UNCHANGED <<ceiling, live, err>>
  BY DEF ReleaseLast
<1> HIDE DEF s, left
<1>4. CASE q = <<>>
  <2>1. free /\ Len(q) = 0 /\ i = 0
    BY <1>1, <1>2, <1>4
  <2>2. rest = <<>>
    BY <1>4, <2>1
  <2>3. HeadPrio(rest, sched.prio) = NoPrio
    BY <2>2 DEF HeadPrio
  <2> HIDE DEF rest, free
  <2>4. QED BY <1>3, <1>4, <2>1, <2>2, <2>3 DEF s, left
<1>5. CASE q # <<>>
  <2>1. ~free /\ Len(q) >= 1
    BY <1>1, <1>2, <1>5
  <2>2. i = 1
    <3>1. Min(good) \in good /\ \A k \in good : Min(good) <= k
      <4>1. good \in SUBSET Nat /\ good # {}
        BY <2>1
      <4> HIDE DEF good
      <4>2. QED BY <4>1, MinNat
    <3>2. QED BY <1>1, <1>2, <2>1, <3>1
  <2> HIDE DEF i, free, good
  <2>3. n = Head(q) /\ n \in ToSet(q)
    <3>1. n = q[1]
      BY <2>2
    <3>2. 1 \in 1 .. Len(q)
      BY <1>1, <2>1
    <3>3. Head(q) = q[1]
      BY <1>1, <1>5, HeadTailProperties
    <3> HIDE DEF n, q
    <3>4. QED BY <1>1, <3>1, <3>2, <3>3
  <2>4. rest = Tail(q)
    <3>1. i + 1 = 2
      BY <2>2
    <3>2. rest = SubSeq(q, 2, Len(q))
      BY <3>1, Zenon
    <3> HIDE DEF q, rest
    <3>3. QED BY <1>1, <1>5, <3>2
  <2> HIDE DEF rest, n
  <2>5. QED BY <1>3, <1>5, <2>1, <2>3, <2>4 DEF s, left
<1>6. QED BY <1>3, <1>4, <1>5 DEF s, left

\* The head is taken off a list on which nothing stands twice.
LEMMA TailSeq ==
  ASSUME NEW S, NEW q \in Seq(S), q # <<>>, IsInjective(q)
  PROVE  /\ Tail(q) \in Seq(S) /\ IsInjective(Tail(q))
         /\ ToSet(Tail(q)) = ToSet(q) \ {Head(q)}
         /\ Head(q) \in ToSet(q)
<1>1. /\ Len(q) \in Nat \ {0} /\ Head(q) = q[1]
      /\ Tail(q) \in Seq(S) /\ Len(Tail(q)) = Len(q) - 1
      /\ \A k \in 1 .. Len(q) - 1 : Tail(q)[k] = q[k + 1]
  BY HeadTailProperties, LenProperties, EmptySeq
<1> DEFINE r == Tail(q)
<1>2. \A j, k \in 1 .. Len(q) : q[j] = q[k] => j = k
  BY InjectiveSeq
<1>3. \A x : x \in ToSet(q) <=> \E k \in 1 .. Len(q) : q[k] = x
  BY InToSet
<1>4. r \in Seq(S) /\ Len(r) = Len(q) - 1 /\ \A k \in 1 .. Len(q) - 1 : r[k] = q[k + 1]
  BY <1>1
<1> HIDE DEF r
<1>5. \A x : x \in ToSet(r) <=> \E k \in 1 .. Len(r) : r[k] = x
  BY <1>4, InToSet
<1>6. IsInjective(r)
  <2>1. \A j, k \in 1 .. Len(r) : r[j] = r[k] => j = k
    BY <1>1, <1>2, <1>4
  <2>2. QED BY <2>1, <1>4, InjectiveSeq
<1>7. ASSUME NEW x \in ToSet(r) PROVE x \in ToSet(q) /\ x # q[1]
  <2>1. PICK k \in 1 .. Len(r) : r[k] = x
    BY <1>5
  <2>2. k + 1 \in 1 .. Len(q) /\ q[k + 1] = x /\ k + 1 # 1 /\ 1 \in 1 .. Len(q)
    BY <1>1, <1>4, <2>1
  <2>3. QED BY <1>2, <1>3, <2>2
<1>8. ASSUME NEW x \in ToSet(q), x # q[1] PROVE x \in ToSet(r)
  <2>1. PICK k \in 1 .. Len(q) : q[k] = x
    BY <1>3
  <2>2. k # 1
    BY <1>8, <2>1
  <2>3. k - 1 \in 1 .. Len(r) /\ r[k - 1] = x
    BY <1>1, <1>4, <2>1, <2>2
  <2>4. QED BY <1>5, <2>3
<1>9. q[1] \in ToSet(q)
  BY <1>1, <1>3
<1>10. ToSet(r) = ToSet(q) \ {q[1]}
  BY <1>7, <1>8
<1>11. QED BY <1>1, <1>4, <1>6, <1>9, <1>10 DEF r

\* The last release hands the mutex to the first waiter and wakes it.
LEMMA ReleaseLastLists ==
  ASSUME IInv, OwnersInv', NEW t \in Thread, NEW m \in Mutexes,
         ReleaseLast(t, m), UNCHANGED codeVars,
         t = cur, sched.stat[t] # "suspend", pc[t] # "arm"
  PROVE  ListsInv'
<1> DEFINE left == taken[t] \ {m}
           s == CheckedPrio(t, m, left)
           q == waitq[m]
           n == Head(q)
<1>0. OwnersInv /\ TypeOK /\ ListsInv
  BY DEF IInv, OwnersInv
<1>1. s \in SchedState /\ SchedInv(s) /\ s.stat = sched.stat /\ s.cur = sched.cur
  <2>1. left \in SUBSET Mutexes
    BY <1>0 DEF TypeOK
  <2> HIDE DEF left
  <2>2. QED BY <1>0, <2>1, CheckedPrioInv DEF ListsInv
<1>2. /\ q = <<>> =>
           /\ owner' = [owner EXCEPT ![m] = NoThread]
           /\ waitq' = [waitq EXCEPT ![m] = <<>>]
           /\ sched' = IF ChecksPrio(t, m) THEN Resched(s) ELSE s
           /\ UNCHANGED <<timer, pending>>
      /\ q # <<>> =>
           /\ n \in ToSet(q)
           /\ owner' = [owner EXCEPT ![m] = n]
           /\ waitq' = [waitq EXCEPT ![m] = Tail(q)]
           /\ timer' = [timer EXCEPT ![n] = FALSE]
           /\ pending' = [pending EXCEPT ![n] = NoMutex]
           /\ sched' = Resched(Insert(s, n))
      /\ UNCHANGED err
  BY ReleasesToFirst
<1> HIDE DEF s, left
<1>3. UNCHANGED <<pc, want>>
  BY DEF codeVars
<1>4. CASE q = <<>>
  <2>1. SchedInv(sched') /\ SameSleepers(sched, sched')
    BY <1>1, <1>2, <1>4, ReschedInv DEF SameSleepers
  <2>2. waitq' = waitq /\ \A k \in Mutexes : owner'[k] # NoThread => owner'[k] = owner[k]
    BY <1>0, <1>2, <1>4 DEF TypeOK
  <2>3. UNCHANGED <<timer, pending>>
    BY <1>2, <1>4
  <2>4. QED
    BY <1>0, <1>2, <1>3, <2>1, <2>2, <2>3, ListsAlone, ThreadAssumption DEF SameSleepers
<1>5. CASE q # <<>>
  <2>1. /\ q \in Seq(Thread) /\ IsInjective(q)
        /\ \A y \in ToSet(q) : sched.stat[y] = "suspend" /\ pending[y] = m
    BY <1>0 DEF TypeOK, ListsInv, ListRight
  <2>2. /\ IsInjective(Tail(q)) /\ ToSet(Tail(q)) = ToSet(q) \ {n}
    BY <1>5, <2>1, TailSeq
  <2>3. PICK x \in Thread :
          x = n /\ x \in ToSet(q) /\ sched.stat[x] = "suspend" /\ pending[x] = m
    BY <1>2, <1>5, <2>1, InToSet
  <2> HIDE DEF n
  <2>4. /\ SchedInv(sched')
        /\ \A y \in Thread : sched'.stat[y] = "suspend" <=> sched.stat[y] = "suspend" /\ y # x
    BY <1>1, <1>2, <1>5, <2>3, WakeInv
  <2>5. /\ \A k \in Mutexes : waitq'[k] = IF k = m THEN Tail(q) ELSE waitq[k]
        /\ \A k \in Mutexes : owner'[k] \in Thread /\ owner'[k] # x => owner[k] = owner'[k]
        /\ \A y \in Thread \ {x} : timer'[y] = timer[y] /\ pending'[y] = pending[y]
        /\ timer'[x] = FALSE
    BY <1>0, <1>2, <1>5, <2>3 DEF TypeOK
  <2>6. \A k \in Mutexes :
          /\ IsInjective(waitq'[k])
          /\ x \notin ToSet(waitq'[k])
          /\ \A y \in ToSet(waitq'[k]) : y \in ToSet(waitq[k])
    BY <1>0, <2>2, <2>3, <2>5 DEF ListsInv, ListRight
  <2>7. WaitRight(x)'
    <3>1. WaitRight(x)
      BY <1>0, <2>3 DEF ListsInv
    <3>2. pc[x] # "arm"
      BY <1>0, <2>3 DEF OwnersInv, OnlyRunningHoldsLock, LockedPC
    <3>3. QED BY <1>2, <1>3, <2>3, <2>4, <2>5, <3>1, <3>2 DEF WaitRight
  <2>8. QED BY <1>0, <1>2, <1>3, <2>3, <2>4, <2>5, <2>6, <2>7, ListsButOne
<1>6. QED BY <1>4, <1>5

\* A final release, by rt_mutex_release or for a deleted owner, hands the mutex
\* to the head of the list or frees it, and keeps every list right.
LEMMA ReleaseLists ==
  ASSUME IInv, OwnersInv', NEW t \in Thread, NEW m \in Mutexes,
         Release(t, m) \/ FreeTaken(t, m)
  PROVE  ListsInv'
<1>1. At(t, "run") \/ At(t, "free")
  BY DEF Release, FreeTaken
<1>2. t = cur /\ sched.stat[t] # "suspend" /\ pc[t] # "arm"
  BY <1>1, AtAwake DEF IInv, cur
<1>3. ReleaseLast(t, m) /\ UNCHANGED codeVars
  BY DEF Release, FreeTaken
<1>4. QED BY <1>2, <1>3, ReleaseLastLists

\* Steps that only change priorities: rt_mutex_setprioceiling,
\* RT_THREAD_CTRL_CHANGE_PRIORITY and the end of a time slice.
LEMMA PriorityLists ==
  ASSUME IInv, OwnersInv',
         \/ \E t \in Thread, m \in Mutexes, c \in SetPrios : SetCeiling(t, m, c)
         \/ \E t, x \in Thread, c \in SetPrios : ChangePriority(t, x, c)
         \/ SliceEnds
  PROVE  ListsInv'
<1>0. OwnersInv /\ TypeOK /\ ListsInv /\ sched \in SchedState /\ SchedInv(sched)
  BY DEF IInv, OwnersInv, TypeOK, ListsInv
<1>1. ASSUME NEW t \in Thread, NEW m \in Mutexes, NEW c \in SetPrios, SetCeiling(t, m, c)
      PROVE  ListsInv'
  <2> DEFINE o == owner[m]
             p == MutexPrio(o, taken[o], mprio, ceiling')
  <2>1. ceiling' \in [Mutexes -> 0 .. PrioMax] /\ o \in Thread \cup {NoThread}
    BY <1>0, <1>1 DEF OwnersInv, TypeOK
  <2>2. SchedInv(sched') /\ sched'.stat = sched.stat
    <3>1. CASE o # NoThread
      <4>1. o \in Thread /\ UpdatePriority(sched, o, p)
        BY <1>1, <2>1, <3>1 DEF SetCeiling
      <4>2. p \in Prio
        BY <1>0, <2>1, <4>1, MutexPrioType DEF TypeOK
      <4> HIDE DEF p
      <4>3. QED BY <1>0, <4>1, <4>2, UpdatePriorityInv
    <3>2. CASE o = NoThread
      BY <1>0, <1>1, <3>2 DEF SetCeiling
    <3>3. QED BY <3>1, <3>2
  <2>3. sched.stat[t] # "suspend" /\ pc' = [pc EXCEPT ![t] = "ceil"]
    BY <1>0, <1>1, AtAwake DEF SetCeiling
  <2>4. UNCHANGED <<owner, waitq, timer, err, pending, want>>
    BY <1>1 DEF SetCeiling, threadVars
  <2>5. \A y \in Thread : y # t => pc'[y] = pc[y]
    BY <1>0, <2>3 DEF TypeOK
  <2>6. pc'[t] = "ceil"
    BY <1>0, <2>3 DEF TypeOK
  <2>7. QED BY <1>0, <2>2, <2>3, <2>4, <2>5, <2>6, ListsAlone
<1>2. ASSUME NEW t \in Thread, NEW x \in Thread, NEW c \in SetPrios, ChangePriority(t, x, c)
      PROVE  ListsInv'
  <2>1. c \in Prio
    BY MutexAssumption
  <2>2. SchedInv(sched') /\ sched'.stat = sched.stat
    BY <1>0, <1>2, <2>1, ChangePrioInv DEF ChangePriority
  <2>3. UNCHANGED <<owner, waitq, timer, err, pending, pc, want>>
    BY <1>2 DEF ChangePriority, mutexVars, threadVars, codeVars
  <2>4. QED BY <1>0, <2>2, <2>3, ListsAlone
<1>3. ASSUME SliceEnds PROVE ListsInv'
  <2> DEFINE r == [sched EXCEPT !.yield[cur] = TRUE]
  <2>1. cur \in Thread
    BY <1>0 DEF cur, SchedState
  <2>2. r \in SchedState /\ SchedInv(r) /\ r.stat = sched.stat
    BY <1>0, <2>1, YieldQueues
  <2>3. sched' = Resched(r)
    BY <1>3 DEF SliceEnds
  <2> HIDE DEF r
  <2>4. SchedInv(sched') /\ SameSleepers(sched, sched')
    BY <2>2, <2>3, ReschedInv DEF SameSleepers
  <2>5. UNCHANGED <<owner, waitq, timer, err, pending, pc, want>>
    BY <1>3 DEF SliceEnds, mutexVars, threadVars, codeVars
  <2>6. QED BY <1>0, <2>4, <2>5, ListsAlone DEF SameSleepers
<1>4. QED BY <1>1, <1>2, <1>3

\* Thread x leaves every wait list.
LEMMA UnlinkedLists ==
  ASSUME IInv, NEW x \in Thread, NEW w, w = [m \in Mutexes |-> Unlink(waitq[m], x)]
  PROVE  \A m \in Mutexes : /\ IsInjective(w[m])
                            /\ \A y \in ToSet(w[m]) : y \in ToSet(waitq[m]) /\ y # x
<1> SUFFICES ASSUME NEW m \in Mutexes
             PROVE  /\ IsInjective(w[m])
                    /\ \A y \in ToSet(w[m]) : y \in ToSet(waitq[m]) /\ y # x
  OBVIOUS
<1>1. waitq[m] \in Seq(Thread) /\ IsInjective(waitq[m])
  BY DEF IInv, OwnersInv, TypeOK, ListsInv, ListRight
<1>2. w[m] = Unlink(waitq[m], x)
  OBVIOUS
<1>3. QED BY <1>1, <1>2, UnlinkSeq

\* A thread is woken by its timeout or by rt_thread_resume.
LEMMA WakeLists ==
  ASSUME IInv, OwnersInv',
         (\E x \in Thread : TimerExpires(x)) \/ (\E t, x \in Thread : Resume(t, x))
  PROVE  ListsInv'
<1>0. OwnersInv /\ TypeOK /\ ListsInv /\ sched \in SchedState /\ SchedInv(sched)
  BY DEF IInv, OwnersInv, TypeOK, ListsInv
<1>1. PICK x \in Thread :
        /\ sched.stat[x] = "suspend" /\ pc[x] # "arm"
        /\ sched' = Resched(Insert(sched, x))
        /\ waitq' = [m \in Mutexes |-> Unlink(waitq[m], x)]
        /\ timer'[x] = FALSE
        /\ \A y \in Thread \ {x} : timer'[y] = timer[y] /\ err'[y] = err[y]
        /\ UNCHANGED <<owner, pending, pc, want>>
  <2>1. ASSUME NEW x \in Thread, TimerExpires(x)
        PROVE  /\ sched.stat[x] = "suspend" /\ pc[x] # "arm"
               /\ sched' = Resched(Insert(sched, x))
               /\ waitq' = [m \in Mutexes |-> Unlink(waitq[m], x)]
               /\ timer'[x] = FALSE
               /\ \A y \in Thread \ {x} : timer'[y] = timer[y] /\ err'[y] = err[y]
               /\ UNCHANGED <<owner, pending, pc, want>>
    <3>1. WaitRight(x)
      BY <1>0 DEF ListsInv
    <3>2. sched.stat[x] = "suspend" /\ pc[x] # "arm"
      BY <2>1, <3>1 DEF WaitRight, TimerExpires
    <3>3. QED BY <1>0, <2>1, <3>2 DEF TimerExpires, TypeOK, codeVars
  <2>2. ASSUME NEW t \in Thread, NEW x \in Thread, Resume(t, x)
        PROVE  /\ sched.stat[x] = "suspend" /\ pc[x] # "arm"
               /\ sched' = Resched(Insert(sched, x))
               /\ waitq' = [m \in Mutexes |-> Unlink(waitq[m], x)]
               /\ timer'[x] = FALSE
               /\ \A y \in Thread \ {x} : timer'[y] = timer[y] /\ err'[y] = err[y]
               /\ UNCHANGED <<owner, pending, pc, want>>
    <3>1. t = cur /\ pc[t] = "run"
      BY <2>2 DEF Resume, At
    <3>2. pc[x] # "arm"
      BY <1>0, <3>1 DEF OwnersInv, OnlyRunningHoldsLock, LockedPC
    <3>3. Resched(Insert(sched, x)) = Schedule(Insert(sched, x))
      BY <3>1 DEF Resched, LockedPC
    <3>4. QED BY <1>0, <2>2, <3>2, <3>3 DEF Resume, TypeOK, codeVars
  <2>3. QED BY <2>1, <2>2
<1>2. /\ SchedInv(sched')
      /\ \A y \in Thread : sched'.stat[y] = "suspend" <=> sched.stat[y] = "suspend" /\ y # x
  BY <1>0, <1>1, WakeInv
<1>3. \A m \in Mutexes : /\ IsInjective(waitq'[m])
                         /\ \A y \in ToSet(waitq'[m]) : y \in ToSet(waitq[m]) /\ y # x
  BY <1>1, UnlinkedLists
<1>4. WaitRight(x)'
  <2>1. WaitRight(x)
    BY <1>0 DEF ListsInv
  <2>2. QED BY <1>1, <1>2, <2>1 DEF WaitRight
<1>5. QED BY <1>0, <1>1, <1>2, <1>3, <1>4, ListsButOne

\* rt_mutex_detach wakes the first waiter with an error.
LEMMA DetachWakeLists ==
  ASSUME IInv, OwnersInv', NEW t \in Thread, DetachWake(t)
  PROVE  ListsInv'
<1> DEFINE m == want[t]
           q == waitq[m]
           n == Head(q)
<1>0. OwnersInv /\ TypeOK /\ ListsInv /\ sched \in SchedState /\ SchedInv(sched)
  BY DEF IInv, OwnersInv, TypeOK, ListsInv
<1>1. /\ t = cur /\ pc[t] = "wake" /\ m \in Mutexes /\ q # <<>>
      /\ waitq' = [waitq EXCEPT ![m] = Tail(q)]
      /\ sched' = Insert(sched, n)
      /\ err'   = [err EXCEPT ![n] = "error"]
      /\ timer' = [timer EXCEPT ![n] = FALSE]
      /\ UNCHANGED <<owner, pending, pc, want>>
  BY <1>0 DEF DetachWake, At, codeVars, OwnersInv, WantKnown
<1>2. /\ q \in Seq(Thread) /\ IsInjective(q)
      /\ \A y \in ToSet(q) : sched.stat[y] = "suspend" /\ pending[y] = m
  BY <1>0, <1>1 DEF TypeOK, ListsInv, ListRight
<1>3. /\ IsInjective(Tail(q)) /\ ToSet(Tail(q)) = ToSet(q) \ {n} /\ n \in ToSet(q)
  BY <1>1, <1>2, TailSeq
<1>4. PICK x \in Thread : x = n /\ sched.stat[x] = "suspend" /\ pending[x] = m
  BY <1>2, <1>3, InToSet
<1> HIDE DEF n, m
<1>5. /\ SchedInv(sched')
      /\ \A y \in Thread : sched'.stat[y] = "suspend" <=> sched.stat[y] = "suspend" /\ y # x
  <2>1. /\ SchedInv(Insert(sched, x))
        /\ Insert(sched, x).stat =
             [sched.stat EXCEPT ![x] = IF x = sched.cur THEN "running" ELSE "ready"]
    BY <1>0, <1>4, InsertInv
  <2>2. QED BY <1>0, <1>1, <1>4, <2>1 DEF SchedState
<1>6. /\ \A k \in Mutexes : waitq'[k] = IF k = m THEN Tail(q) ELSE waitq[k]
      /\ \A y \in Thread \ {x} : timer'[y] = timer[y] /\ err'[y] = err[y]
      /\ timer'[x] = FALSE
  BY <1>0, <1>1, <1>4 DEF TypeOK
<1>7. \A k \in Mutexes :
        /\ IsInjective(waitq'[k])
        /\ x \notin ToSet(waitq'[k])
        /\ \A y \in ToSet(waitq'[k]) : y \in ToSet(waitq[k])
  BY <1>0, <1>3, <1>4, <1>6 DEF ListsInv, ListRight
<1>8. WaitRight(x)'
  <2>1. WaitRight(x)
    BY <1>0, <1>4 DEF ListsInv
  <2>2. pc[x] # "arm"
    BY <1>0, <1>1, <1>4 DEF OwnersInv, OnlyRunningHoldsLock, LockedPC
  <2>3. sched'.stat[x] # "suspend" /\ timer'[x] = FALSE
    BY <1>5, <1>6
  <2>4. UNCHANGED <<owner, pc, want>>
    BY <1>1
  <2>5. pc[x] \in {"block", "wait"} => owner[want[x]] # x
    BY <1>4, <2>1 DEF WaitRight
  <2>6. QED BY <2>2, <2>3, <2>4, <2>5 DEF WaitRight
<1>9. \A y \in Thread \ {x} :
        /\ sched'.stat[y] = "suspend" <=> sched.stat[y] = "suspend"
        /\ pending'[y] = pending[y] /\ want'[y] = want[y]
        /\ timer'[y] = timer[y] /\ err'[y] = err[y]
        /\ pc'[y] = pc[y]
  BY <1>1, <1>5, <1>6
<1>10. owner' = owner
  BY <1>1
<1>11. OwnersInv' /\ SchedInv(sched')
  BY <1>5
<1> HIDE DEF q
<1>12. QED BY <1>0, <1>7, <1>8, <1>9, <1>10, <1>11, ListsButOne

\* rt_thread_close takes the thread off the ready queues.
LEMMA CloseInv ==
  ASSUME NEW s \in SchedState, SchedInv(s), NEW x \in Thread
  PROVE  /\ Close(s, x) \in SchedState /\ SchedInv(Close(s, x))
         /\ Close(s, x).cur = s.cur /\ Close(s, x).prio = s.prio
         /\ Close(s, x).stat = [s.stat EXCEPT ![x] = "close"]
<1>1. /\ Close(s, x) \in SchedState /\ Close(s, x).cur = s.cur
      /\ Close(s, x).prio = s.prio
      /\ Close(s, x).stat = [s.stat EXCEPT ![x] = "close"]
  BY CloseState
<1>2. QueuesAgree(Close(s, x))
  BY SuspendQueues DEF SchedInv
<1>3. QED BY <1>1, <1>2 DEF SchedInv, OneRunning, SchedState

\* rt_thread_mdelay
LEMMA SleepLists ==
  ASSUME IInv, OwnersInv', NEW t \in Thread, Sleep(t)
  PROVE  ListsInv'
<1> DEFINE s == Suspend(sched, t)
<1>0. OwnersInv /\ TypeOK /\ ListsInv /\ sched \in SchedState /\ SchedInv(sched)
  BY DEF IInv, OwnersInv, TypeOK, ListsInv
<1>1. t = sched.cur /\ pc[t] = "run" /\ sched.stat[t] # "suspend"
  BY <1>0, AtAwake DEF Sleep
<1>2. /\ s \in SchedState /\ SchedInv(s)
      /\ s.stat = [sched.stat EXCEPT ![t] = "suspend"]
  <2>1. /\ s \in SchedState /\ s.cur = sched.cur
        /\ s.stat = [sched.stat EXCEPT ![t] = "suspend"]
    BY <1>0, SuspendState
  <2>2. QueuesAgree(s)
    BY <1>0, SuspendQueues DEF SchedInv
  <2>3. QED BY <1>0, <1>1, <2>1, <2>2 DEF SchedInv, OneRunning, SchedState
<1>3. sched' = Schedule(s)
  BY DEF Sleep
<1> HIDE DEF s
<1>4. /\ SchedInv(sched') /\ sched'.stat[t] = "suspend"
      /\ \A y \in Thread \ {t} : sched'.stat[y] = "suspend" <=> sched.stat[y] = "suspend"
  <2>1. SchedInv(sched') /\ SameSleepers(s, sched')
    BY <1>2, <1>3, ScheduleQueues
  <2>2. \A y \in Thread : s.stat[y] = IF y = t THEN "suspend" ELSE sched.stat[y]
    BY <1>0, <1>2 DEF SchedState
  <2>3. QED BY <2>1, <2>2 DEF SameSleepers
<1>5. /\ UNCHANGED <<owner, waitq, pending, err, pc, want>>
      /\ \A y \in Thread \ {t} : timer'[y] = timer[y]
  BY <1>0 DEF Sleep, mutexVars, codeVars, TypeOK
<1>6. WaitRight(t)'
  BY <1>1, <1>4, <1>5 DEF WaitRight
<1>7. \A m \in Mutexes : IsInjective(waitq[m]) /\ t \notin ToSet(waitq[m])
  BY <1>0, <1>1 DEF ListsInv, ListRight
<1>8. QED BY <1>0, <1>4, <1>5, <1>6, <1>7, ListsButOne

\* _thread_exit: the thread ran, so it is on no list.
LEMMA ExitLists ==
  ASSUME IInv, OwnersInv', NEW t \in Thread, Exit(t)
  PROVE  ListsInv'
<1>0. OwnersInv /\ TypeOK /\ ListsInv /\ sched \in SchedState /\ SchedInv(sched)
  BY DEF IInv, OwnersInv, TypeOK, ListsInv
<1>1. sched.stat[t] # "suspend"
  BY <1>0, AtAwake DEF Exit
<1>2. /\ SchedInv(sched')
      /\ sched'.stat = [sched.stat EXCEPT ![t] = "close"]
  BY <1>0, CloseInv DEF Exit
<1>3. \A y \in Thread : sched'.stat[y] = "suspend" <=> sched.stat[y] = "suspend"
  BY <1>0, <1>1, <1>2 DEF SchedState
<1>4. UNCHANGED <<owner, waitq, pending, timer, err, want>>
  BY DEF Exit, mutexVars, threadVars
<1>5. pc' = [pc EXCEPT ![t] = "free"] /\ pc \in [Thread -> PC]
  BY <1>0 DEF Exit, TypeOK
<1>6. \A y \in Thread : pc'[y] = IF y = t THEN "free" ELSE pc[y]
  BY <1>5
<1>7. QED BY <1>0, <1>1, <1>2, <1>3, <1>4, <1>6, ListsAlone

\* rt_thread_delete takes the other thread off the list it waits on.
LEMMA DeleteLists ==
  ASSUME IInv, OwnersInv', NEW t \in Thread, NEW x \in Thread, Delete(t, x)
  PROVE  ListsInv'
<1> DEFINE m  == pending[x]
           q  == [n \in Mutexes |-> Unlink(waitq[n], x)]
           mp == [mprio EXCEPT ![m] = HeadPrio(q[m], sched.prio)]
           o  == owner[m]
           s  == Close(sched, x)
           p  == MutexPrio(o, taken[o], mp, ceiling)
<1>0. OwnersInv /\ TypeOK /\ ListsInv /\ sched \in SchedState /\ SchedInv(sched)
  BY DEF IInv, OwnersInv, TypeOK, ListsInv
<1>1. t = sched.cur /\ pc[t] = "run" /\ sched.stat[t] # "suspend" /\ x # t
  BY <1>0, AtAwake DEF Delete
<1>2. /\ s \in SchedState /\ SchedInv(s)
      /\ s.stat = [sched.stat EXCEPT ![x] = "close"]
  BY <1>0, CloseInv
<1>3. waitq' = q
  BY DEF Delete
<1>4. \A n \in Mutexes : /\ IsInjective(waitq'[n])
                         /\ \A y \in ToSet(waitq'[n]) : y \in ToSet(waitq[n]) /\ y # x
  BY <1>3, UnlinkedLists
<1>5. SchedInv(sched') /\ sched'.stat = s.stat
  <2> HIDE DEF s
  <2>1. CASE m = NoMutex
    BY <1>2, <2>1 DEF Delete, s
  <2>2. CASE m # NoMutex
    <3>1. IF o # NoThread /\ s.prio[o] = s.prio[x]
          THEN UpdatePriority(s, o, p)
          ELSE sched' = s /\ UNCHANGED chain
      BY <2>2 DEF Delete, s
    <3>2. m \in Mutexes /\ q[m] \in Seq(Thread)
      BY <1>0, <2>2, UnlinkSeq DEF TypeOK
    <3>3. HeadPrio(q[m], sched.prio) \in 0 .. PrioMax
      BY <1>0, <3>2, HeadPrioType DEF SchedState
    <3>4. mp \in [Mutexes -> 0 .. PrioMax] /\ o \in Thread \cup {NoThread}
      BY <1>0, <3>2, <3>3 DEF TypeOK
    <3> HIDE DEF mp, q
    <3>5. o \in Thread => p \in Prio
      BY <1>0, <3>4, MutexPrioType DEF TypeOK
    <3> HIDE DEF p, o
    <3>6. CASE o # NoThread /\ s.prio[o] = s.prio[x]
      BY <1>2, <3>1, <3>4, <3>5, <3>6, UpdatePriorityInv
    <3>7. CASE ~(o # NoThread /\ s.prio[o] = s.prio[x])
      BY <1>2, <3>1, <3>7
    <3>8. QED BY <3>6, <3>7
  <2>3. QED BY <2>1, <2>2
<1>6. /\ UNCHANGED <<owner, err, want>>
      /\ pending' = [pending EXCEPT ![x] = NoMutex]
      /\ timer' = [timer EXCEPT ![x] = FALSE]
      /\ pc' = [pc EXCEPT ![t] = "free", ![x] = "closed"]
  BY DEF Delete
<1> HIDE DEF q, mp, s, p
<1>7. /\ sched'.stat[x] # "suspend"
      /\ \A y \in Thread \ {x} : sched'.stat[y] = "suspend" <=> sched.stat[y] = "suspend"
  BY <1>0, <1>2, <1>5 DEF SchedState
<1>8. /\ \A y \in Thread \ {x} : pending'[y] = pending[y] /\ timer'[y] = timer[y]
      /\ timer'[x] = FALSE /\ pc'[x] = "closed" /\ pc'[t] = "free"
      /\ \A y \in Thread \ {x, t} : pc'[y] = pc[y]
  BY <1>0, <1>1, <1>6 DEF TypeOK
<1>9. WaitRight(x)'
  BY <1>7, <1>8 DEF WaitRight
<1>10. \A y \in Thread \ {x} :
         \/ pc'[y] = pc[y]
         \/ pc'[y] \notin {"arm", "block", "wait"} /\ sched.stat[y] # "suspend"
  <2>1. ASSUME NEW y \in Thread, y # x, y # t PROVE pc'[y] = pc[y]
    BY <1>8, <2>1
  <2>2. QED BY <1>1, <1>8, <2>1
<1>11. QED BY <1>0, <1>4, <1>5, <1>6, <1>7, <1>8, <1>9, <1>10, ListsButOne

\* rt_mutex_detach, its end
LEMMA DetachReturnLists ==
  ASSUME IInv, OwnersInv', NEW t \in Thread, DetachReturn(t)
  PROVE  ListsInv'
<1> DEFINE m == want[t]
           o == owner[m]
           left == taken[o] \ {m}
           s == CheckedPrio(o, m, left)
           r == IF ChecksPrio(o, m) THEN Resched(s) ELSE s
<1>0. OwnersInv /\ TypeOK /\ ListsInv /\ sched \in SchedState /\ SchedInv(sched)
  BY DEF IInv, OwnersInv, TypeOK, ListsInv
<1>1. m \in Mutexes /\ o \in Thread \cup {NoThread}
  BY <1>0 DEF DetachReturn, At, OwnersInv, WantKnown, TypeOK
<1>2. SchedInv(sched') /\ SameSleepers(sched, sched')
  <2>1. CASE o = NoThread
    <3>1. sched' = ExitCritical(sched)
      BY <2>1 DEF DetachReturn
    <3>2. QED BY <1>0, <3>1, ExitCriticalQueues
  <2>2. CASE o # NoThread
    <3>1. o \in Thread /\ left \in SUBSET Mutexes
      BY <1>0, <1>1, <2>2 DEF TypeOK
    <3>2. sched' = ExitCritical(r)
      BY <2>2 DEF DetachReturn
    <3> HIDE DEF left
    <3>3. s \in SchedState /\ SchedInv(s) /\ s.stat = sched.stat
      BY <1>0, <3>1, CheckedPrioInv
    <3> HIDE DEF s
    <3>4. r \in SchedState /\ SchedInv(r) /\ SameSleepers(sched, r)
      BY <3>3, ReschedInv DEF SameSleepers
    <3> HIDE DEF r
    <3>5. QED BY <3>2, <3>4, ExitCriticalQueues DEF SameSleepers
  <2>3. QED BY <2>1, <2>2
<1>3. sched.stat[t] # "suspend" /\ pc' = [pc EXCEPT ![t] = "run"]
  BY <1>0, AtAwake DEF DetachReturn
<1>4. /\ UNCHANGED <<owner, waitq, pending, timer, err>>
      /\ want' = [want EXCEPT ![t] = NoMutex]
  BY DEF DetachReturn, threadVars
<1>5. /\ pc'[t] = "run"
      /\ \A y \in Thread \ {t} : pc'[y] = pc[y] /\ want'[y] = want[y]
  BY <1>0, <1>3, <1>4 DEF TypeOK
<1>6. QED BY <1>0, <1>2, <1>3, <1>4, <1>5, ListsAlone DEF SameSleepers

\* At start every list is empty and nobody waits.
LEMMA InitLists == Init => ListsInv
<1> SUFFICES ASSUME Init PROVE ListsInv
  OBVIOUS
<1>1. SchedInv(sched)
  BY StartQueues DEF Init
<1>2. \A m \in Mutexes : waitq[m] = <<>>
  BY DEF Init
<1>3. IsInjective(<<>>) /\ ToSet(<<>>) = {}
  BY DEF IsInjective, ToSet
<1>4. \A m \in Mutexes : ListRight(m)
  BY <1>2, <1>3 DEF ListRight
<1>5. \A t \in Thread : WaitRight(t)
  BY ThreadAssumption DEF Init, WaitRight, AllAsleep
<1>6. QED BY <1>1, <1>4, <1>5 DEF ListsInv

\* Every step keeps the lists right: whoever is on a list is suspended in a take
\* of that mutex and on it once, and a waiter has not been given the mutex yet.
LEMMA NextLists == IInv /\ [Next]_vars => ListsInv'
<1> SUFFICES ASSUME IInv, [Next]_vars PROVE ListsInv'
  OBVIOUS
<1>0. OwnersInv'
  BY NextOwners DEF IInv
<1>1. CASE UNCHANGED vars
  <2>1. UNCHANGED <<sched, owner, waitq, pending, err, timer, pc, want>>
    BY <1>1 DEF vars, mutexVars, threadVars, codeVars
  <2>2. QED BY <2>1 DEF IInv, ListsInv, ListRight, WaitRight
<1>2. ASSUME NEW t \in Thread, Call(t) PROVE ListsInv'
  BY <1>0, <1>2, MoveLists, TakeFreeLists, TakeBlockLists, ReleaseLists, PriorityLists,
     SleepLists, WakeLists, ExitLists, DeleteLists DEF Call
<1>3. ASSUME NEW t \in Thread, Continue(t) PROVE ListsInv'
  BY <1>0, <1>3, TakeWaitLists, MoveLists, TakeFailedLists, UnlockLists, ReleaseLists,
     DetachWakeLists, DetachReturnLists DEF Continue
<1>4. QED BY <1>0, <1>1, <1>2, <1>3, WakeLists, PriorityLists, PropagateLists DEF Next

-----------------------------------------------------------------------------
(* Refinement: the mutex is a HandoverLock                                 *)

\* A step of the promised lock, or none
LockStep == [Lock!LockNext]_(Lock!lockVars)

\* A step that leaves owners, counts and waiters alone.
LEMMA LockUntouched ==
  ASSUME UNCHANGED <<owner, hold, victim>>,
         \A m \in Mutexes : ToSet(waitq'[m]) = ToSet(waitq[m])
  PROVE  LockStep
<1>1. [m \in Mutexes |-> ToSet(waitq'[m])] = [m \in Mutexes |-> ToSet(waitq[m])]
  OBVIOUS
<1>2. QED BY <1>1 DEF LockStep, Lock!lockVars

\* Thread x leaves the lists without the mutex: a timeout, rt_thread_resume,
\* rt_mutex_detach.
LEMMA LockGivenUp ==
  ASSUME OwnersInv, ListsInv, NEW x \in Thread, UNCHANGED <<owner, hold, victim>>,
         \A m \in Mutexes : ToSet(waitq'[m]) = ToSet(waitq[m]) \ {x}
  PROVE  LockStep
<1>1. CASE \A m \in Mutexes : x \notin ToSet(waitq[m])
  <2>1. \A m \in Mutexes : ToSet(waitq'[m]) = ToSet(waitq[m])
    BY <1>1
  <2>2. QED BY <2>1, LockUntouched
<1>2. CASE \E m \in Mutexes : x \in ToSet(waitq[m])
  <2>1. PICK m \in Mutexes : x \in ToSet(waitq[m])
    BY <1>2
  <2>2. \A k \in Mutexes : k # m => x \notin ToSet(waitq[k])
    BY <2>1 DEF ListsInv, ListRight
  <2>3. [k \in Mutexes |-> ToSet(waitq'[k])]
          = [[k \in Mutexes |-> ToSet(waitq[k])] EXCEPT ![m] = @ \ {x}]
    BY <2>2
  <2>4. Lock!GiveUp(x, m)
    BY <2>1, <2>3 DEF Lock!GiveUp
  <2>5. QED BY <2>4 DEF LockStep, Lock!LockNext
<1>3. QED BY <1>1, <1>2

\* Whoever runs waits for nothing.
LEMMA RunnerWaitsNot ==
  ASSUME ListsInv, NEW t \in Thread, sched.stat[t] # "suspend"
  PROVE  ~Lock!Waits(t)
BY DEF ListsInv, ListRight, Lock!Waits

\* _thread_detach_from_mutex runs from the close of a thread to the end of its
\* loop.
VictimFreed == victim # NoThread => \E t \in Thread : pc[t] = "free"

\* Nobody calls the kernel while a thread is being closed, as the scheduler is
\* locked.
LEMMA CallsOpen ==
  ASSUME OwnersInv, VictimFreed, NEW t \in Thread, At(t, "run")
  PROVE  victim = NoThread
BY DEF VictimFreed, OwnersInv, OnlyRunningHoldsLock, LockedPC, At, cur

\* Takes, and the releases that leave the owner the mutex
LEMMA LockTaken ==
  ASSUME IInv, VictimFreed, NEW t \in Thread, NEW m \in Mutexes,
         \/ TakeAgain(t, m) \/ TakeFree(t, m) \/ TakeBlock(t, m) \/ ReleaseAgain(t, m)
  PROVE  LockStep
<1>0. OwnersInv /\ TypeOK /\ ListsInv
  BY DEF IInv, OwnersInv
<1>1. At(t, "run")
  BY DEF TakeAgain, TakeFree, TakeBlock, ReleaseAgain
<1>2. sched.stat[t] # "suspend"
  BY <1>0, <1>1, AtAwake
<1>3. Lock!Calls(t)
  BY <1>0, <1>1, <1>2, RunnerWaitsNot, CallsOpen DEF Lock!Calls
<1>4. CASE TakeAgain(t, m)
  <2>1. Lock!Reacquire(t, m)
    BY <1>3, <1>4 DEF TakeAgain, codeVars, Lock!Reacquire
  <2>2. QED BY <2>1 DEF LockStep, Lock!LockNext
<1>5. CASE ReleaseAgain(t, m)
  <2>1. Lock!Undo(t, m)
    BY <1>3, <1>5 DEF ReleaseAgain, codeVars, Lock!Undo
  <2>2. QED BY <2>1 DEF LockStep, Lock!LockNext
<1>6. CASE TakeFree(t, m)
  <2>1. ToSet(waitq[m]) = {}
    <3>1. SUFFICES ASSUME NEW y \in ToSet(waitq[m]) PROVE FALSE
      OBVIOUS
    <3>2. waitq[m] \in Seq(Thread)
      BY <1>0 DEF TypeOK
    <3>3. y \in Thread /\ sched.stat[y] = "suspend" /\ pending[y] = m
      BY <1>0, <3>2, InToSet DEF ListsInv, ListRight
    <3>4. owner[m] # NoThread
      BY <1>0, <3>3, MutexAssumption DEF OwnersInv, WaitersListed
    <3>5. QED BY <1>6, <3>4 DEF TakeFree
  <2>2. Lock!Acquire(t, m)
    BY <1>3, <1>6, <2>1 DEF TakeFree, codeVars, Lock!Acquire
  <2>3. QED BY <2>2 DEF LockStep, Lock!LockNext
<1>7. CASE TakeBlock(t, m)
  <2>1. ToSet(EnqueuePrio(waitq[m], t, sched.prio)) = ToSet(waitq[m]) \cup {t}
    BY <1>0, EnqueuePrioSeq DEF TypeOK
  <2>2. waitq' = [waitq EXCEPT ![m] = EnqueuePrio(@, t, sched.prio)]
    BY <1>7 DEF TakeBlock
  <2>3. [k \in Mutexes |-> ToSet(waitq'[k])]
          = [[k \in Mutexes |-> ToSet(waitq[k])] EXCEPT ![m] = @ \cup {t}]
    BY <1>0, <2>1, <2>2 DEF TypeOK
  <2>4. Lock!Wait(t, m)
    BY <1>3, <1>7, <2>3 DEF TakeBlock, codeVars, Lock!Wait
  <2>5. QED BY <2>4 DEF LockStep, Lock!LockNext
<1>8. QED BY <1>4, <1>5, <1>6, <1>7

\* The last release frees the mutex, or hands it to a waiter in the same step;
\* at the end of a thread every release is the last one.
LEMMA LockReleased ==
  ASSUME IInv, NEW t \in Thread, NEW m \in Mutexes, ReleaseLast(t, m),
         sched.stat[t] # "suspend", owner[m] = t, UNCHANGED victim,
         (victim = NoThread /\ hold[m] = 1) \/ victim = t
  PROVE  LockStep
<1> DEFINE q == waitq[m]
           n == Head(q)
<1>0. OwnersInv /\ TypeOK /\ ListsInv
  BY DEF IInv, OwnersInv
<1>1. Lock!LetsGo(t, m)
  BY <1>0, RunnerWaitsNot DEF Lock!LetsGo
<1>2. /\ q = <<>> =>
           /\ owner' = [owner EXCEPT ![m] = NoThread]
           /\ hold' = [hold EXCEPT ![m] = 0]
           /\ waitq' = [waitq EXCEPT ![m] = <<>>]
      /\ q # <<>> =>
           /\ n \in ToSet(q)
           /\ owner' = [owner EXCEPT ![m] = n]
           /\ hold' = [hold EXCEPT ![m] = 1]
           /\ waitq' = [waitq EXCEPT ![m] = Tail(q)]
  BY ReleasesToFirst
<1>3. q \in Seq(Thread) /\ IsInjective(q)
  BY <1>0 DEF TypeOK, ListsInv, ListRight
<1>4. CASE q = <<>>
  <2>1. ToSet(q) = {} /\ waitq' = waitq
    BY <1>0, <1>2, <1>3, <1>4, EmptyToSet DEF TypeOK
  <2>2. Lock!Free(t, m)
    BY <1>1, <1>2, <1>4, <2>1 DEF Lock!Free
  <2>3. QED BY <2>2 DEF LockStep, Lock!LockNext
<1>5. CASE q # <<>>
  <2>1. ToSet(Tail(q)) = ToSet(q) \ {n} /\ n \in ToSet(q)
    BY <1>3, <1>5, TailSeq
  <2>2. PICK x \in Thread : x = n
    BY <1>3, <2>1, InToSet
  <2> HIDE DEF n
  <2>3. [k \in Mutexes |-> ToSet(waitq'[k])]
          = [[k \in Mutexes |-> ToSet(waitq[k])] EXCEPT ![m] = @ \ {x}]
    BY <1>0, <1>2, <1>5, <2>1, <2>2 DEF TypeOK
  <2>4. hold' = [hold EXCEPT ![m] = 1]
    BY <1>2, <1>5
  <2>5. Lock!HandOver(t, x, m)
    BY <1>1, <1>2, <1>5, <2>1, <2>2, <2>3, <2>4 DEF Lock!HandOver
  <2>6. QED BY <2>5 DEF LockStep, Lock!LockNext
<1>6. QED BY <1>4, <1>5

\* VictimFreed holds all along: whoever sets the victim goes on to free its
\* mutexes in _thread_detach_from_mutex, and forgets the victim at the end.
LEMMA VictimFreedStep ==
  ASSUME TypeOK, VictimFreed, [Next]_vars
  PROVE  VictimFreed'
<1> SUFFICES ASSUME victim' # NoThread
             PROVE  \E x \in Thread : pc'[x] = "free"
  BY DEF VictimFreed
<1>0. pc \in [Thread -> PC]
  BY DEF TypeOK
<1>1. ASSUME UNCHANGED <<pc, victim>>
      PROVE  \E x \in Thread : pc'[x] = "free"
  BY <1>1 DEF VictimFreed
<1>2. ASSUME NEW t \in Thread, NEW l \in PC, pc[t] # "free",
             pc' = [pc EXCEPT ![t] = l], UNCHANGED victim
      PROVE  \E x \in Thread : pc'[x] = "free"
  <2>1. PICK x \in Thread : pc[x] = "free"
    BY <1>2 DEF VictimFreed
  <2>2. pc'[x] = "free"
    BY <1>0, <1>2, <2>1
  <2>3. QED BY <2>2
<1>3. CASE UNCHANGED vars
  BY <1>1, <1>3 DEF vars, codeVars
<1>4. ASSUME NEW t \in Thread, Call(t)
      PROVE  \E x \in Thread : pc'[x] = "free"
  <2>1. ASSUME NEW m \in Mutexes,
               \/ TakeAgain(t, m) \/ TakeFree(t, m) \/ TakeBlock(t, m)
               \/ ReleaseAgain(t, m) \/ Release(t, m) \/ Detach(t, m)
               \/ \E p \in SetPrios : SetCeiling(t, m, p)
        PROVE  \E x \in Thread : pc'[x] = "free"
    <3>1. \/ UNCHANGED <<pc, victim>>
          \/ \E l \in PC : pc[t] # "free" /\ pc' = [pc EXCEPT ![t] = l] /\ UNCHANGED victim
      BY <2>1 DEF TakeAgain, TakeFree, TakeBlock, ReleaseAgain, Release, Detach,
                  SetCeiling, codeVars, PC, At
    <3>2. QED BY <1>1, <1>2, <3>1
  <2>2. ASSUME \/ Sleep(t)
               \/ \E y \in Thread, p \in SetPrios : ChangePriority(t, y, p)
               \/ \E y \in Thread : Resume(t, y)
        PROVE  UNCHANGED <<pc, victim>>
    BY <2>2 DEF Sleep, ChangePriority, Resume, codeVars
  <2>3. ASSUME Exit(t) \/ \E y \in Thread : Delete(t, y)
        PROVE  pc'[t] = "free"
    BY <1>0, <2>3 DEF Exit, Delete
  <2>4. QED BY <1>1, <1>4, <2>1, <2>2, <2>3 DEF Call
<1>5. ASSUME NEW t \in Thread, Continue(t)
      PROVE  \E x \in Thread : pc'[x] = "free"
  <2>1. ~CloseReturn(t)
    BY DEF CloseReturn
  <2>2. \/ UNCHANGED <<pc, victim>>
        \/ \E l \in PC : pc[t] # "free" /\ pc' = [pc EXCEPT ![t] = l] /\ UNCHANGED victim
    BY <1>5, <2>1 DEF Continue, TakeArm, TakeSwitch, TakeGranted, TakeFailed, TakeUnlock,
                TakeReturn, SetCeilingReturn, FreeTaken, DetachWake, DetachReturn, codeVars,
                PC, At
  <2>3. QED BY <1>1, <1>2, <2>2
<1>6. (SliceEnds \/ Propagate \/ \E t \in Thread : TimerExpires(t)) => UNCHANGED <<pc, victim>>
  BY DEF SliceEnds, Propagate, TimerExpires, codeVars
<1>7. QED BY <1>1, <1>3, <1>4, <1>5, <1>6 DEF Next

\* rt_mutex_release, and the releases at the end of a thread
LEMMA LockFreed ==
  ASSUME IInv, VictimFreed, NEW t \in Thread, NEW m \in Mutexes,
         Release(t, m) \/ FreeTaken(t, m)
  PROVE  LockStep
<1>0. OwnersInv /\ TypeOK /\ ListsInv
  BY DEF IInv, OwnersInv
<1>1. At(t, "run") \/ At(t, "free")
  BY DEF Release, FreeTaken
<1>2. sched.stat[t] # "suspend" /\ ReleaseLast(t, m) /\ UNCHANGED victim
  BY <1>0, <1>1, AtAwake DEF Release, FreeTaken, codeVars
<1>3. CASE Release(t, m)
  <2>1. victim = NoThread /\ owner[m] = t /\ hold[m] = 1
    BY <1>0, <1>3, CallsOpen DEF Release
  <2>2. QED BY <1>2, <2>1, LockReleased
<1>4. CASE FreeTaken(t, m)
  <2>1. victim = t /\ owner[m] = t
    BY <1>0, <1>4 DEF FreeTaken, OwnersInv, OwnerConsistent
  <2>2. QED BY <1>2, <2>1, LockReleased
<1>5. QED BY <1>3, <1>4

\* The beginning and the end of _thread_exit and rt_thread_delete
LEMMA LockClosed ==
  ASSUME IInv, VictimFreed, NEW t \in Thread,
         CloseReturn(t) \/ Exit(t) \/ \E x \in Thread : Delete(t, x)
  PROVE  LockStep
<1>0. OwnersInv /\ TypeOK /\ ListsInv
  BY DEF IInv, OwnersInv
<1>1. CASE Exit(t)
  <2>1. At(t, "run") /\ victim = NoThread
    BY <1>0, <1>1, CallsOpen DEF Exit
  <2>2. \A m \in Mutexes : t \notin ToSet(waitq[m])
    BY <1>0, <2>1, AtAwake DEF ListsInv, ListRight
  <2>3. victim' = t /\ UNCHANGED <<owner, hold, waitq>>
    BY <1>1 DEF Exit, mutexVars
  <2>4. [m \in Mutexes |-> ToSet(waitq'[m])]
          = [m \in Mutexes |-> [k \in Mutexes |-> ToSet(waitq[k])][m] \ {t}]
    BY <2>2, <2>3
  <2>5. Lock!Close(t)
    BY <2>1, <2>3, <2>4 DEF Lock!Close
  <2>6. QED BY <2>5 DEF LockStep, Lock!LockNext
<1>2. ASSUME NEW x \in Thread, Delete(t, x)
      PROVE  LockStep
  <2>1. victim = NoThread
    BY <1>0, <1>2, CallsOpen DEF Delete
  <2>2. /\ waitq' = [m \in Mutexes |-> Unlink(waitq[m], x)]
        /\ victim' = x /\ UNCHANGED <<owner, hold>>
    BY <1>2 DEF Delete
  <2>3. \A m \in Mutexes : ToSet(Unlink(waitq[m], x)) = ToSet(waitq[m]) \ {x}
    BY <1>0, UnlinkSeq DEF TypeOK, ListsInv, ListRight
  <2>4. [m \in Mutexes |-> ToSet(waitq'[m])]
          = [m \in Mutexes |-> [k \in Mutexes |-> ToSet(waitq[k])][m] \ {x}]
    BY <2>2, <2>3
  <2>5. Lock!Close(x)
    BY <2>1, <2>2, <2>4 DEF Lock!Close
  <2>6. QED BY <2>5 DEF LockStep, Lock!LockNext
<1>3. CASE CloseReturn(t)
  <2> DEFINE S == taken[victim]
  <2>1. victim \in Thread /\ victim' = NoThread /\ UNCHANGED <<owner, waitq>>
    BY <1>0, <1>3 DEF CloseReturn, At, OwnersInv, VictimKnown
  <2>2. S \in SUBSET {m \in Mutexes : owner[m] = victim}
    BY <1>0, <2>1 DEF TypeOK, OwnersInv, OwnerConsistent
  <2>3. hold' = [m \in Mutexes |-> IF m \in S THEN 1 ELSE hold[m]]
    BY <1>0, <1>3 DEF CloseReturn, TypeOK
  <2>4. Lock!Closed
    BY <2>1, <2>2, <2>3, ThreadAssumption DEF Lock!Closed
  <2>5. QED BY <2>4 DEF LockStep, Lock!LockNext
<1>4. QED BY <1>1, <1>2, <1>3

\* The wait ends that leave the mutex with its owner
LEMMA LockLeft ==
  ASSUME IInv,
         \/ \E x \in Thread : TimerExpires(x) \/ DetachWake(x)
         \/ \E t, x \in Thread : Resume(t, x)
  PROVE  LockStep
<1>0. OwnersInv /\ TypeOK /\ ListsInv
  BY DEF IInv, OwnersInv
<1>1. \A m \in Mutexes : waitq[m] \in Seq(Thread) /\ IsInjective(waitq[m])
  BY <1>0 DEF TypeOK, ListsInv, ListRight
<1>2. ASSUME NEW x \in Thread, TimerExpires(x) \/ \E t \in Thread : Resume(t, x)
      PROVE  LockStep
  <2>1. /\ waitq' = [m \in Mutexes |-> Unlink(waitq[m], x)]
        /\ UNCHANGED <<owner, hold, victim>>
    BY <1>2 DEF TimerExpires, Resume, codeVars
  <2>2. \A m \in Mutexes : ToSet(waitq'[m]) = ToSet(waitq[m]) \ {x}
    BY <1>1, <2>1, UnlinkSeq
  <2>3. QED BY <1>0, <2>1, <2>2, LockGivenUp
<1>3. ASSUME NEW t \in Thread, DetachWake(t)
      PROVE  LockStep
  <2>1. /\ want[t] \in Mutexes /\ waitq[want[t]] # <<>>
        /\ waitq' = [waitq EXCEPT ![want[t]] = Tail(waitq[want[t]])]
        /\ UNCHANGED <<owner, hold, victim>>
    BY <1>0, <1>3 DEF DetachWake, At, OwnersInv, WantKnown, codeVars
  <2>2. /\ ToSet(Tail(waitq[want[t]])) = ToSet(waitq[want[t]]) \ {Head(waitq[want[t]])}
        /\ Head(waitq[want[t]]) \in ToSet(waitq[want[t]])
    BY <1>1, <2>1, TailSeq
  <2>3. PICK x \in Thread : x = Head(waitq[want[t]])
    BY <1>1, <2>1, <2>2, InToSet
  <2>4. ASSUME NEW m \in Mutexes, m # want[t] PROVE x \notin ToSet(waitq[m])
    <3>1. pending[x] = want[t]
      BY <1>0, <2>1, <2>2, <2>3 DEF ListsInv, ListRight
    <3>2. QED BY <1>0, <2>4, <3>1 DEF ListsInv, ListRight
  <2>5. \A m \in Mutexes : waitq'[m] = IF m = want[t] THEN Tail(waitq[m]) ELSE waitq[m]
    BY <1>0, <2>1 DEF TypeOK
  <2>6. \A m \in Mutexes : ToSet(waitq'[m]) = ToSet(waitq[m]) \ {x}
    BY <2>1, <2>2, <2>3, <2>4, <2>5
  <2>7. QED BY <1>0, <2>1, <2>6, LockGivenUp
<1>4. QED BY <1>2, <1>3

\* The loop of _thread_update_priority moves a waiter within its list.
LEMMA LockRequeued ==
  ASSUME IInv, Propagate
  PROVE  LockStep
<1>0. OwnersInv /\ TypeOK
  BY DEF IInv, OwnersInv
<1>1. PICK x \in Thread : x = chain
  BY <1>0 DEF Propagate, TypeOK
<1>2. CASE ~(sched.stat[x] = "suspend" /\ pending[x] # NoMutex)
  BY <1>1, <1>2, LockUntouched DEF Propagate
<1>3. CASE sched.stat[x] = "suspend" /\ pending[x] # NoMutex
  <2>1. PICK m \in Mutexes : m = pending[x]
    BY <1>0, <1>3 DEF TypeOK
  <2>2. waitq[m] \in Seq(Thread) /\ IsInjective(waitq[m]) /\ x \in ToSet(waitq[m])
    BY <1>0, <1>3, <2>1 DEF TypeOK, IInv, ListsInv, ListRight, OwnersInv, WaitersListed
  <2>3. Unlink(waitq[m], x) \in Seq(Thread) /\ ToSet(Unlink(waitq[m], x)) = ToSet(waitq[m]) \ {x}
    BY <2>2, UnlinkSeq
  <2>4. ToSet(Requeued(x, m)) = ToSet(waitq[m])
    <3>1. ToSet(EnqueuePrio(Unlink(waitq[m], x), x, sched.prio))
            = ToSet(Unlink(waitq[m], x)) \cup {x}
      BY <2>3, EnqueuePrioSeq
    <3>2. QED BY <2>2, <2>3, <3>1 DEF Requeued
  <2>5. waitq' = [waitq EXCEPT ![m] = Requeued(x, m)] /\ UNCHANGED <<owner, hold, victim>>
    BY <1>1, <1>3, <2>1 DEF Propagate
  <2>6. \A k \in Mutexes : ToSet(waitq'[k]) = ToSet(waitq[k])
    BY <1>0, <2>4, <2>5 DEF TypeOK
  <2>7. QED BY <2>5, <2>6, LockUntouched
<1>4. QED BY <1>2, <1>3

\* Every step of the mutex code is a step of the abstract lock or leaves it
\* unchanged: this is the step of the refinement.
LEMMA NextLock ==
  ASSUME IInv, VictimFreed, [Next]_vars
  PROVE  LockStep
<1>1. ASSUME UNCHANGED <<owner, hold, waitq, victim>> PROVE LockStep
  BY <1>1, LockUntouched
<1>2. CASE UNCHANGED vars
  BY <1>1, <1>2 DEF vars, mutexVars, codeVars
<1>3. ASSUME NEW t \in Thread, Call(t) PROVE LockStep
  <2>1. ASSUME \/ \E m \in Mutexes : Detach(t, m)
               \/ \E m \in Mutexes, p \in SetPrios : SetCeiling(t, m, p)
               \/ Sleep(t)
               \/ \E x \in Thread, p \in SetPrios : ChangePriority(t, x, p)
        PROVE  LockStep
    BY <1>1, <2>1 DEF Detach, SetCeiling, Sleep, ChangePriority, mutexVars, codeVars
  <2>2. QED BY <1>3, <2>1, LockTaken, LockFreed, LockClosed, LockLeft DEF Call
<1>4. ASSUME NEW t \in Thread, Continue(t) PROVE LockStep
  <2>1. ASSUME \/ TakeArm(t) \/ TakeSwitch(t) \/ TakeGranted(t) \/ TakeFailed(t)
               \/ TakeUnlock(t) \/ TakeReturn(t) \/ SetCeilingReturn(t) \/ DetachReturn(t)
        PROVE  LockStep
    BY <1>1, <2>1 DEF TakeArm, TakeSwitch, TakeGranted, TakeFailed, TakeUnlock, TakeReturn,
                      SetCeilingReturn, DetachReturn, mutexVars, codeVars
  <2>2. QED BY <1>4, <2>1, LockFreed, LockClosed, LockLeft DEF Continue
<1>5. SliceEnds => LockStep
  BY <1>1 DEF SliceEnds, mutexVars, codeVars
<1>6. QED BY <1>2, <1>3, <1>4, <1>5, LockLeft, LockRequeued DEF Next

\* Initially every lock is free and nobody waits.
LEMMA InitLock == Init => Lock!LockInit /\ VictimFreed
<1> SUFFICES ASSUME Init PROVE Lock!LockInit /\ VictimFreed
  OBVIOUS
<1>1. ToSet(<<>>) = {}
  BY DEF ToSet
<1>2. [m \in Mutexes |-> ToSet(waitq[m])] = [m \in Mutexes |-> {}]
  BY <1>1 DEF Init
<1>3. Lock!LockInit
  BY <1>2 DEF Init, Lock!LockInit
<1>4. QED BY <1>3 DEF Init, VictimFreed
-----------------------------------------------------------------------------
(* Priority inheritance: lists in priority order, and the boost            *)

\* Ordered, spelled out for the provers: priorities never fall along the list.
LEMMA OrderedIs ==
  ASSUME NEW q, NEW prio
  PROVE  Ordered(q, prio) <=> \A i, j \in 1 .. Len(q) : i < j => prio[q[i]] <= prio[q[j]]
BY DEF Ordered, IsSorted

\* Order is a matter of the priorities of the threads on the list.
LEMMA OrderedAgree ==
  ASSUME NEW q \in Seq(Thread), NEW prio1, NEW prio2,
         \A y \in ToSet(q) : prio1[y] = prio2[y]
  PROVE  /\ Ordered(q, prio1) <=> Ordered(q, prio2)
         /\ HeadPrio(q, prio1) = HeadPrio(q, prio2)
<1>1. Len(q) \in Nat /\ \A k \in 1 .. Len(q) : q[k] \in ToSet(q)
  BY InToSet
<1>2. Ordered(q, prio1) <=> Ordered(q, prio2)
  BY <1>1, OrderedIs
<1>3. HeadPrio(q, prio1) = HeadPrio(q, prio2)
  <2>1. CASE q = <<>>
    BY <2>1 DEF HeadPrio
  <2>2. CASE q # <<>>
    <3>1. Head(q) = q[1] /\ 1 \in 1 .. Len(q)
      BY <1>1, <2>2, HeadTailProperties, EmptySeq
    <3>2. QED BY <1>1, <2>2, <3>1 DEF HeadPrio
  <2>3. QED BY <2>1, <2>2
<1>4. QED BY <1>2, <1>3

\* A list stays in order when a thread is taken off it ...
LEMMA UnlinkOrdered ==
  ASSUME NEW q \in Seq(Thread), NEW t, NEW prio \in [Thread -> Prio], Ordered(q, prio)
  PROVE  Ordered(Unlink(q, t), prio)
<1>1. CASE \E i \in 1 .. Len(q) : q[i] = t
  <2> DEFINE I == {i \in 1 .. Len(q) : q[i] = t}
  <2>1. I \in SUBSET Nat /\ I # {}
    BY <1>1
  <2>2. Min(I) \in I
    BY <2>1, MinNat
  <2>3. Unlink(q, t) = RemoveAt(q, Min(I))
    BY <1>1, <2>1 DEF Unlink, RemoveFirst, SelectInSeq
  <2>4. PICK i \in 1 .. Len(q) : i = Min(I)
    BY <2>2
  <2> HIDE DEF I
  <2> DEFINE c == RemoveAt(q, i)
  <2>5. /\ Len(c) = Len(q) - 1
        /\ \A k \in 1 .. Len(q) - 1 : c[k] = IF k < i THEN q[k] ELSE q[k + 1]
    BY RemoveAtPos
  <2>6. Len(q) \in Nat
    BY InToSet
  <2>7. \A j, k \in 1 .. Len(q) : j < k => prio[q[j]] <= prio[q[k]]
    BY OrderedIs
  <2> HIDE DEF c
  <2>8. ASSUME NEW j \in 1 .. Len(c), NEW k \in 1 .. Len(c), j < k
        PROVE  prio[c[j]] <= prio[c[k]]
    <3>1. PICK l \in 1 .. Len(q) : l = IF j < i THEN j ELSE j + 1
      BY <2>5, <2>6
    <3>2. PICK m \in 1 .. Len(q) : m = IF k < i THEN k ELSE k + 1
      BY <2>5, <2>6
    <3>3. c[j] = q[l] /\ c[k] = q[m] /\ l < m
      BY <2>5, <2>6, <2>8, <3>1, <3>2
    <3>4. QED BY <2>7, <3>3
  <2>9. Ordered(c, prio)
    BY <2>8, OrderedIs
  <2>10. QED BY <2>3, <2>4, <2>9 DEF c
<1>2. CASE ~ \E i \in 1 .. Len(q) : q[i] = t
  BY <1>2 DEF Unlink, RemoveFirst
<1>3. QED BY <1>1, <1>2

\* ... or queued by its priority; its first priority is then the higher of the
\* two.
LEMMA EnqueueOrdered ==
  ASSUME NEW q \in Seq(Thread), NEW t \in Thread, NEW prio \in [Thread -> Prio],
         Ordered(q, prio)
  PROVE  /\ Ordered(EnqueuePrio(q, t, prio), prio)
         /\ HeadPrio(EnqueuePrio(q, t, prio), prio) = Min2(HeadPrio(q, prio), prio[t])
<1> DEFINE after == {i \in 1 .. Len(q) : prio[t] < prio[q[i]]}
           at == IF after = {} THEN Len(q) + 1 ELSE Min(after)
<1>1. Len(q) \in Nat /\ \A k \in 1 .. Len(q) : q[k] \in Thread
  BY InToSet
<1>2. \A y \in Thread : prio[y] \in Nat /\ prio[y] < PrioMax
  BY ThreadAssumption DEF Prio
<1>3. /\ at \in 1 .. Len(q) + 1
      /\ \A k \in 1 .. Len(q) : k < at => prio[q[k]] <= prio[t]
      /\ at <= Len(q) => prio[t] < prio[q[at]]
  <2>1. CASE after = {}
    <3>1. at = Len(q) + 1
      BY <2>1
    <3>2. \A k \in 1 .. Len(q) : ~(prio[t] < prio[q[k]])
      BY <2>1
    <3>3. \A k \in 1 .. Len(q) : prio[q[k]] \in Nat /\ prio[t] \in Nat
      BY <1>1, <1>2
    <3> HIDE DEF at
    <3>4. QED BY <1>1, <3>1, <3>2, <3>3
  <2>2. CASE after # {}
    <3>1. after \in SUBSET Nat
      OBVIOUS
    <3>2. Min(after) \in after /\ \A k \in after : Min(after) <= k
      BY <2>2, <3>1, MinNat
    <3>3. at = Min(after)
      BY <2>2
    <3>4. \A k \in 1 .. Len(q) : k < at => k \notin after
      BY <1>1, <3>2, <3>3
    <3> HIDE DEF at
    <3>5. at \in 1 .. Len(q) /\ prio[t] < prio[q[at]]
      BY <3>2, <3>3
    <3>6. ASSUME NEW k \in 1 .. Len(q), k < at PROVE prio[q[k]] <= prio[t]
      <4>1. ~(prio[t] < prio[q[k]]) /\ q[k] \in Thread
        BY <1>1, <3>4, <3>6
      <4>2. QED BY <1>2, <4>1
    <3>7. QED BY <1>1, <3>5, <3>6
  <2>3. QED BY <2>1, <2>2
<1>4. EnqueuePrio(q, t, prio) = InsertAt(q, at, t)
  BY DEF EnqueuePrio
<1> HIDE DEF at
<1> DEFINE d == InsertAt(q, at, t)
<1>5. /\ d \in Seq(Thread) /\ Len(d) = Len(q) + 1
      /\ \A k \in 1 .. Len(q) + 1 :
           d[k] = IF k < at THEN q[k] ELSE IF k = at THEN t ELSE q[k - 1]
  <2>1. PICK i \in 1 .. Len(q) + 1 : i = at
    BY <1>3
  <2>2. /\ InsertAt(q, i, t) \in Seq(Thread) /\ Len(InsertAt(q, i, t)) = Len(q) + 1
        /\ \A k \in 1 .. Len(q) + 1 : InsertAt(q, i, t)[k] =
             IF k < i THEN q[k] ELSE IF k = i THEN t ELSE q[k - 1]
    BY InsertAtPos
  <2>3. QED BY <2>1, <2>2
<1> HIDE DEF d
<1>6. \A j, k \in 1 .. Len(q) : j < k => prio[q[j]] <= prio[q[k]]
  BY OrderedIs
<1>7. \A k \in 1 .. Len(q) : k >= at => prio[t] <= prio[q[k]]
  BY <1>1, <1>2, <1>3, <1>6
<1>8. ASSUME NEW j \in 1 .. Len(d), NEW k \in 1 .. Len(d), j < k
      PROVE  prio[d[j]] <= prio[d[k]]
  <2>1. CASE k < at
    <3>1. d[j] = q[j] /\ d[k] = q[k] /\ j \in 1 .. Len(q) /\ k \in 1 .. Len(q)
      BY <1>1, <1>3, <1>5, <1>8, <2>1
    <3>2. QED BY <1>6, <1>8, <3>1
  <2>2. CASE k = at
    <3>1. d[k] = t /\ d[j] = q[j] /\ j \in 1 .. Len(q)
      BY <1>1, <1>3, <1>5, <1>8, <2>2
    <3>2. QED BY <1>3, <1>8, <2>2, <3>1
  <2>3. CASE k > at
    <3>1. d[k] = q[k - 1] /\ k - 1 \in 1 .. Len(q) /\ k - 1 >= at
      BY <1>1, <1>3, <1>5, <2>3
    <3>2. CASE j < at
      <4>1. d[j] = q[j] /\ j \in 1 .. Len(q) /\ j < k - 1
        BY <1>1, <1>3, <1>5, <3>1, <3>2
      <4>2. QED BY <1>6, <3>1, <4>1
    <3>3. CASE j = at
      <4>1. d[j] = t
        BY <1>5, <3>3
      <4>2. QED BY <1>7, <3>1, <4>1
    <3>4. CASE j > at
      <4>1. d[j] = q[j - 1] /\ j - 1 \in 1 .. Len(q) /\ j - 1 < k - 1
        BY <1>1, <1>3, <1>5, <1>8, <3>4
      <4>2. QED BY <1>6, <3>1, <4>1
    <3>5. QED BY <1>3, <3>2, <3>3, <3>4
  <2>4. QED BY <1>3, <2>1, <2>2, <2>3
<1>9. Ordered(d, prio)
  BY <1>8, OrderedIs
<1>10. HeadPrio(d, prio) = Min2(HeadPrio(q, prio), prio[t])
  <2>1. d # <<>> /\ Head(d) = d[1]
    BY <1>1, <1>5, HeadTailProperties, EmptySeq
  <2>2. HeadPrio(d, prio) = prio[d[1]]
    BY <2>1 DEF HeadPrio
  <2>3. CASE q = <<>>
    <3>1. d[1] = t
      BY <1>3, <1>5, <2>3
    <3>2. QED BY <1>2, <2>2, <2>3, <3>1, ThreadAssumption DEF HeadPrio, Min2, NoPrio
  <2>4. CASE q # <<>>
    <3>1. HeadPrio(q, prio) = prio[q[1]] /\ 1 \in 1 .. Len(q)
      BY <1>1, <2>4, HeadTailProperties, EmptySeq DEF HeadPrio
    <3>2. CASE at = 1
      <4>1. d[1] = t /\ prio[t] < prio[q[1]]
        BY <1>3, <1>5, <3>1, <3>2
      <4>2. QED BY <1>1, <1>2, <2>2, <3>1, <4>1 DEF Min2
    <3>3. CASE at > 1
      <4>1. d[1] = q[1] /\ prio[q[1]] <= prio[t]
        BY <1>1, <1>3, <1>5, <3>1, <3>3
      <4>2. QED BY <1>1, <1>2, <2>2, <3>1, <4>1 DEF Min2
    <3>4. QED BY <1>3, <3>2, <3>3
  <2>5. QED BY <2>3, <2>4
<1>11. QED BY <1>4, <1>9, <1>10 DEF d

\* The first waiter outranks the rest, and the rest is in order.
LEMMA HeadOrdered ==
  ASSUME NEW q \in Seq(Thread), NEW prio \in [Thread -> Prio], Ordered(q, prio)
  PROVE  /\ \A y \in ToSet(q) : HeadPrio(q, prio) <= prio[y]
         /\ q # <<>> => /\ HeadPrio(q, prio) = prio[Head(q)]
                        /\ Ordered(Tail(q), prio)
                        /\ prio[Head(q)] <= HeadPrio(Tail(q), prio)
<1>1. /\ Len(q) \in Nat /\ \A k \in 1 .. Len(q) : q[k] \in Thread
      /\ \A y : y \in ToSet(q) <=> \E k \in 1 .. Len(q) : q[k] = y
  BY InToSet
<1>2. \A y \in Thread : prio[y] \in Nat /\ prio[y] < PrioMax
  BY ThreadAssumption DEF Prio
<1>3. \A j, k \in 1 .. Len(q) : j < k => prio[q[j]] <= prio[q[k]]
  BY OrderedIs
<1>4. CASE q = <<>>
  <2>1. ToSet(q) = {}
    BY <1>4, EmptyToSet
  <2>2. QED BY <1>4, <2>1
<1>5. CASE q # <<>>
  <2>1. /\ Head(q) = q[1] /\ Len(q) # 0 /\ 1 \in 1 .. Len(q)
        /\ Tail(q) \in Seq(Thread) /\ Len(Tail(q)) = Len(q) - 1
        /\ \A k \in 1 .. Len(q) - 1 : Tail(q)[k] = q[k + 1]
    BY <1>1, <1>5, HeadTailProperties, EmptySeq
  <2>2. HeadPrio(q, prio) = prio[q[1]]
    BY <1>5, <2>1 DEF HeadPrio
  <2>3. \A k \in 1 .. Len(q) : prio[q[1]] <= prio[q[k]]
    BY <1>1, <1>2, <1>3, <2>1
  <2> DEFINE r == Tail(q)
  <2>4. r \in Seq(Thread) /\ Len(r) = Len(q) - 1 /\ \A k \in 1 .. Len(q) - 1 : r[k] = q[k + 1]
    BY <2>1
  <2> HIDE DEF r
  <2>5. Ordered(r, prio)
    <3>1. \A j, k \in 1 .. Len(r) : j < k => prio[r[j]] <= prio[r[k]]
      BY <1>1, <1>3, <2>4
    <3>2. QED BY <3>1, OrderedIs
  <2>6. prio[q[1]] <= HeadPrio(r, prio)
    <3>1. CASE r = <<>>
      BY <1>1, <1>2, <2>1, <3>1, ThreadAssumption DEF HeadPrio, NoPrio
    <3>2. CASE r # <<>>
      <4>1. Head(r) = r[1] /\ Len(r) # 0
        BY <2>4, <3>2, HeadTailProperties, EmptySeq
      <4>2. r[1] = q[2] /\ 2 \in 1 .. Len(q)
        BY <1>1, <2>4, <4>1
      <4>3. QED BY <2>3, <3>2, <4>1, <4>2 DEF HeadPrio
    <3>3. QED BY <3>1, <3>2
  <2>7. \A y \in ToSet(q) : HeadPrio(q, prio) <= prio[y]
    BY <1>1, <2>2, <2>3
  <2>8. QED BY <1>5, <2>1, <2>2, <2>5, <2>6, <2>7 DEF r
<1>6. QED BY <1>4, <1>5

\* p is the highest of the priorities that t has from its base priority and
\* from the mutexes it holds.
Due(p, t, held, mp) ==
  /\ p <= InitPrio[t]
  /\ \A m \in held : p <= mp[m]
  /\ p = InitPrio[t] \/ \E m \in held : p = mp[m]

\* Without ceilings the priority a thread is due is the highest of its own and
\* of the first waiters' of the mutexes it holds.
LEMMA MutexPrioIs ==
  ASSUME NEW t \in Thread, NEW held \in SUBSET Mutexes,
         NEW mp \in [Mutexes -> 0 .. PrioMax],
         NEW ceil, \A m \in Mutexes : ceil[m] = NoPrio, NEW p \in Prio
  PROVE  p = MutexPrio(t, held, mp, ceil) <=> Due(p, t, held, mp)
<1> DEFINE W == {InitPrio[t]} \cup {Min2(mp[m], ceil[m]) : m \in held}
<1>1. InitPrio[t] \in Nat /\ PrioMax \in Nat /\ p \in Nat
  BY ThreadAssumption DEF Prio
<1>2. \A m \in held : Min2(mp[m], ceil[m]) = mp[m] /\ mp[m] \in Nat
  BY <1>1 DEF Min2, NoPrio
<1>3. \A y : y \in W <=> y = InitPrio[t] \/ \E m \in held : y = mp[m]
  BY <1>2
<1>4. W \in SUBSET Nat /\ W # {}
  BY <1>1, <1>2
<1>5. Min(W) \in W /\ \A y \in W : Min(W) <= y
  BY <1>4, MinNat
<1>6. MutexPrio(t, held, mp, ceil) = Min(W)
  BY DEF MutexPrio
<1> HIDE DEF W
<1>7. (\A y \in W : p <= y) <=> p <= InitPrio[t] /\ \A m \in held : p <= mp[m]
  BY <1>3
<1>8. p = Min(W) <=> p \in W /\ \A y \in W : p <= y
  <2>1. p = Min(W) => p \in W /\ \A y \in W : p <= y
    BY <1>5
  <2>2. p \in W /\ (\A y \in W : p <= y) => p <= Min(W) /\ Min(W) <= p
    BY <1>5
  <2>3. Min(W) \in Nat
    BY <1>4, <1>5
  <2>4. QED BY <1>1, <2>1, <2>2, <2>3
<1>9. QED BY <1>3, <1>6, <1>7, <1>8 DEF Due

-----------------------------------------------------------------------------
(* Priority inheritance: every step keeps the boost exact                  *)

\* Priorities, lists and what threads hold stay as they are.
LEMMA BoostKept ==
  ASSUME BoostInv, chain = NoThread, chain' = NoThread,
         UNCHANGED <<waitq, mprio, ceiling, taken>>, sched'.prio = sched.prio
  PROVE  BoostInv'
<1>1. LoopAt = NoMutex /\ LoopAt' = NoMutex
  BY DEF LoopAt
<1>2. QED BY <1>1 DEF BoostInv, Boosted

\* A step after which everything is exact for the priorities prio, but thread o
\* may just have been given another priority: then the loop goes on with o.
LEMMA LoopStep ==
  ASSUME OwnersInv', ListsInv', NEW o \in Thread, NEW prio \in [Thread -> Prio],
         \/ chain' = NoThread /\ sched'.prio = prio
         \/ chain' = o,
         \A y \in Thread \ {o} : sched'.prio[y] = prio[y],
         \A k \in Mutexes : /\ Ordered(waitq'[k], prio)
                            /\ mprio'[k] = HeadPrio(waitq'[k], prio),
         \A y \in Thread : Boosted(y)'
  PROVE  BoostInv'
<1>1. \A k \in Mutexes :
        /\ waitq'[k] \in Seq(Thread) /\ IsInjective(waitq'[k])
        /\ \A y \in ToSet(waitq'[k]) : sched'.stat[y] = "suspend" /\ pending'[y] = k
        /\ \A y \in ToSet(waitq'[k]) : y \in Thread
  <2>1. \A k \in Mutexes : waitq'[k] \in Seq(Thread)
    BY DEF OwnersInv, TypeOK
  <2>2. \A k \in Mutexes : /\ IsInjective(waitq'[k])
                           /\ \A y \in ToSet(waitq'[k]) :
                                sched'.stat[y] = "suspend" /\ pending'[y] = k
    BY DEF ListsInv, ListRight
  <2>3. QED BY <2>1, <2>2, InToSet
<1>2. ASSUME NEW k \in Mutexes, k # LoopAt'
      PROVE  Ordered(waitq'[k], sched'.prio) /\ mprio'[k] = HeadPrio(waitq'[k], sched'.prio)
  <2>1. CASE sched'.prio = prio
    BY <2>1
  <2>2. CASE chain' = o
    <3>1. o \notin ToSet(waitq'[k])
      BY <1>1, <1>2, <2>2, ThreadAssumption DEF LoopAt
    <3>2. \A y \in ToSet(waitq'[k]) : sched'.prio[y] = prio[y]
      BY <1>1, <3>1
    <3>3. QED BY <1>1, <3>2, OrderedAgree
  <2>3. QED BY <2>1, <2>2
<1>3. ASSUME LoopAt' # NoMutex
      PROVE  Ordered(Unlink(waitq'[LoopAt'], chain'), sched'.prio)
  <2>1. chain' = o /\ LoopAt' = pending'[o] /\ LoopAt' \in Mutexes
    BY <1>3 DEF LoopAt, OwnersInv, TypeOK
  <2>2. PICK k \in Mutexes : k = LoopAt'
    BY <2>1
  <2> DEFINE u == Unlink(waitq'[k], o)
  <2>3. u \in Seq(Thread) /\ ToSet(u) = ToSet(waitq'[k]) \ {o}
    BY <1>1, UnlinkSeq
  <2>4. Ordered(u, prio)
    BY <1>1, UnlinkOrdered
  <2> HIDE DEF u
  <2>5. \A y \in ToSet(u) : sched'.prio[y] = prio[y]
    BY <1>1, <2>3
  <2>6. Ordered(u, sched'.prio)
    BY <2>3, <2>4, <2>5, OrderedAgree
  <2>7. QED BY <2>1, <2>2, <2>6 DEF u
<1>4. QED BY <1>2, <1>3 DEF BoostInv

\* What the steps below have in common before them.
LEMMA BoostFacts ==
  ASSUME IInv, PlainInv
  PROVE  /\ TypeOK /\ OwnersInv /\ ListsInv
         /\ sched \in SchedState /\ SchedInv(sched)
         /\ sched.prio \in [Thread -> Prio]
         /\ mprio \in [Mutexes -> 0 .. PrioMax]
         /\ \A y \in Thread : taken[y] \in SUBSET Mutexes
         /\ \A m \in Mutexes : ceiling[m] = NoPrio
         /\ \A m \in Mutexes, y \in Thread : m \in taken[y] <=> owner[m] = y
         /\ \A m \in Mutexes : waitq[m] \in Seq(Thread)
         /\ \A m \in Mutexes : \A y \in ToSet(waitq[m]) :
              y \in Thread /\ sched.stat[y] = "suspend" /\ pending[y] = m
<1>1. TypeOK /\ OwnersInv /\ ListsInv /\ sched \in SchedState /\ SchedInv(sched)
  BY DEF IInv, OwnersInv, ListsInv, TypeOK
<1>2. sched.prio \in [Thread -> Prio] /\ mprio \in [Mutexes -> 0 .. PrioMax]
  BY <1>1 DEF TypeOK, SchedState
<1>3. /\ \A y \in Thread : taken[y] \in SUBSET Mutexes
      /\ \A m \in Mutexes : waitq[m] \in Seq(Thread)
  BY <1>1 DEF TypeOK
<1>4. \A m \in Mutexes : ceiling[m] = NoPrio /\ live[m]
  BY DEF PlainInv
<1>5. \A m \in Mutexes, y \in Thread : m \in taken[y] <=> owner[m] = y
  BY <1>1, <1>4 DEF OwnersInv, OwnerConsistent
<1>6. \A m \in Mutexes : \A y \in ToSet(waitq[m]) :
        y \in Thread /\ sched.stat[y] = "suspend" /\ pending[y] = m
  BY <1>1, <1>3, InToSet DEF ListsInv, ListRight
<1>7. QED BY <1>1, <1>2, <1>3, <1>4, <1>5, <1>6

\* The priority a thread is due does not depend on the mutexes it does not hold,
\* nor on one that nobody waits for.
LEMMA SameDue ==
  ASSUME NEW t \in Thread,
         NEW held1 \in SUBSET Mutexes, NEW held2 \in SUBSET Mutexes,
         NEW mp1 \in [Mutexes -> 0 .. PrioMax], NEW mp2 \in [Mutexes -> 0 .. PrioMax],
         NEW ceil, \A m \in Mutexes : ceil[m] = NoPrio,
         \A k \in held1 : k \in held2 /\ mp2[k] = mp1[k],
         \A k \in held2 \ held1 : mp2[k] = NoPrio,
         NEW p \in Prio, p = MutexPrio(t, held1, mp1, ceil)
  PROVE  p = MutexPrio(t, held2, mp2, ceil)
<1>1. Due(p, t, held1, mp1)
  BY MutexPrioIs
<1>2. p <= NoPrio
  BY ThreadAssumption DEF Prio, NoPrio
<1>3. Due(p, t, held2, mp2)
  BY <1>1, <1>2 DEF Due
<1>4. QED BY <1>3, MutexPrioIs

\* A thread whose priority, ceilings and held mutexes' priorities do not change
\* keeps the boost it has; a mutex it gains with no waiter adds nothing.
LEMMA SameBoost ==
  ASSUME IInv, PlainInv, OwnersInv', NEW y \in Thread, Boosted(y),
         sched'.prio[y] = sched.prio[y], ceiling' = ceiling,
         \A k \in taken[y] : k \in taken'[y] /\ mprio'[k] = mprio[k],
         \A k \in taken'[y] \ taken[y] : mprio'[k] = NoPrio
  PROVE  Boosted(y)'
<1>1. PICK held1 \in SUBSET Mutexes, mp1 \in [Mutexes -> 0 .. PrioMax], p \in Prio :
        held1 = taken[y] /\ mp1 = mprio /\ p = sched.prio[y]
  <2>1. taken[y] \in SUBSET Mutexes /\ mprio \in [Mutexes -> 0 .. PrioMax]
    BY BoostFacts
  <2>2. sched.prio[y] \in Prio
    BY BoostFacts
  <2>3. QED BY <2>1, <2>2
<1>2. PICK held2 \in SUBSET Mutexes, mp2 \in [Mutexes -> 0 .. PrioMax] :
        held2 = taken'[y] /\ mp2 = mprio'
  BY DEF OwnersInv, TypeOK
<1>3. \A m \in Mutexes : ceiling[m] = NoPrio
  BY BoostFacts
<1>4. p = MutexPrio(y, held1, mp1, ceiling)
  BY <1>1 DEF Boosted
<1>5. p = MutexPrio(y, held2, mp2, ceiling)
  BY <1>1, <1>2, <1>3, <1>4, SameDue
<1>6. QED BY <1>1, <1>2, <1>5 DEF Boosted

\* A free mutex has no waiters and lends nothing.
LEMMA TakeFreeBoost ==
  ASSUME IInv, PlainInv, BoostInv, OwnersInv',
         NEW t \in Thread, NEW m \in Mutexes, TakeFree(t, m)
  PROVE  BoostInv' /\ sched' = sched
<1>1. chain = NoThread /\ chain' = NoThread
  BY DEF TakeFree, At, codeVars
<1>2. LoopAt = NoMutex /\ LoopAt' = NoMutex
  BY <1>1 DEF LoopAt
<1>3. sched' = sched
  <2>1. ceiling[m] = PrioMax /\ sched.prio[t] \in 0 .. PrioMax - 1 /\ PrioMax \in Nat
    BY BoostFacts, ThreadAssumption DEF Prio, NoPrio
  <2>2. ~(ceiling[m] < sched.prio[t])
    BY <2>1
  <2>3. QED BY <2>2 DEF TakeFree
<1>4. waitq[m] = <<>>
  <2>1. ASSUME NEW y \in ToSet(waitq[m]) PROVE FALSE
    <3>1. y \in Thread /\ sched.stat[y] = "suspend" /\ pending[y] = m
      BY BoostFacts
    <3>2. owner[m] # NoThread
      BY <3>1, BoostFacts, MutexAssumption DEF OwnersInv, WaitersListed
    <3>3. QED BY <3>2 DEF TakeFree
  <2>2. ToSet(waitq[m]) = {}
    BY <2>1
  <2>3. waitq[m] \in Seq(Thread)
    BY BoostFacts
  <2>4. QED BY <2>2, <2>3, EmptyToSet
<1>5. /\ mprio' = [mprio EXCEPT ![m] = NoPrio]
      /\ taken' = [taken EXCEPT ![t] = @ \cup {m}]
      /\ UNCHANGED <<waitq, ceiling>> /\ owner[m] = NoThread
  BY DEF TakeFree
<1>6. ASSUME NEW k \in Mutexes
      PROVE  Ordered(waitq'[k], sched'.prio) /\ mprio'[k] = HeadPrio(waitq'[k], sched'.prio)
  <2>1. Ordered(waitq[k], sched.prio) /\ mprio[k] = HeadPrio(waitq[k], sched.prio)
    BY <1>2, MutexAssumption DEF BoostInv
  <2>2. mprio'[k] = IF k = m THEN NoPrio ELSE mprio[k]
    BY <1>5, BoostFacts
  <2>3. QED BY <1>3, <1>4, <1>5, <2>1, <2>2 DEF HeadPrio
<1>7. ASSUME NEW y \in Thread
      PROVE  Boosted(y)'
  <2>1. Boosted(y)
    BY <1>2 DEF BoostInv
  <2>2. taken \in [Thread -> SUBSET Mutexes] /\ mprio \in [Mutexes -> 0 .. PrioMax]
    BY BoostFacts DEF TypeOK
  <2>3. m \notin taken[y]
    BY <1>5, BoostFacts, ThreadAssumption
  <2>4. /\ \A k \in taken[y] : k \in taken'[y] /\ mprio'[k] = mprio[k]
        /\ \A k \in taken'[y] \ taken[y] : mprio'[k] = NoPrio
    BY <1>5, <2>2, <2>3
  <2>5. QED BY <1>3, <1>5, <2>1, <2>4, SameBoost
<1>8. QED BY <1>2, <1>3, <1>6, <1>7 DEF BoostInv

\* A waiter of priority p raises the priority that the owner is due to p.
LEMMA RaisedDue ==
  ASSUME NEW t \in Thread, NEW held \in SUBSET Mutexes, NEW m \in held,
         NEW mp1 \in [Mutexes -> 0 .. PrioMax], NEW mp2 \in [Mutexes -> 0 .. PrioMax],
         NEW ceil, \A k \in Mutexes : ceil[k] = NoPrio,
         NEW p \in Prio, mp2[m] = Min2(mp1[m], p),
         \A k \in held \ {m} : mp2[k] = mp1[k],
         NEW p1 \in Prio, p1 = MutexPrio(t, held, mp1, ceil),
         NEW p2 \in Prio, p2 = IF p < mp1[m] /\ p < p1 THEN p ELSE p1
  PROVE  p2 = MutexPrio(t, held, mp2, ceil)
<1>1. /\ p1 <= InitPrio[t] /\ \A k \in held : p1 <= mp1[k]
      /\ p1 = InitPrio[t] \/ \E k \in held : p1 = mp1[k]
  <2>1. Due(p1, t, held, mp1)
    BY MutexPrioIs
  <2>2. QED BY <2>1 DEF Due
<1>2. /\ p \in Nat /\ p1 \in Nat /\ p2 \in Nat /\ InitPrio[t] \in Nat
      /\ \A k \in held : mp1[k] \in Nat /\ mp2[k] \in Nat
  BY ThreadAssumption DEF Prio
<1>3. mp2[m] = IF mp1[m] < p THEN mp1[m] ELSE p
  BY DEF Min2
<1>4. p2 <= p1
  BY <1>2
<1>5. p2 <= InitPrio[t]
  BY <1>1, <1>2, <1>4
<1>6. \A k \in held : p2 <= mp2[k]
  <2>1. ASSUME NEW k \in held, k # m PROVE p2 <= mp2[k]
    BY <1>1, <1>2, <1>4, <2>1
  <2>2. p2 <= mp2[m]
    BY <1>1, <1>2, <1>3
  <2>3. QED BY <2>1, <2>2
<1>7. p2 = InitPrio[t] \/ \E k \in held : p2 = mp2[k]
  <2>1. CASE p < mp1[m] /\ p < p1
    BY <1>2, <1>3, <2>1
  <2>2. CASE ~(p < mp1[m] /\ p < p1)
    <3>1. ASSUME NEW k \in held, p1 = mp1[k] PROVE p2 = mp2[k]
      BY <1>2, <1>3, <2>2, <3>1
    <3>2. QED BY <1>1, <2>2, <3>1
  <2>3. QED BY <2>1, <2>2
<1>8. Due(p2, t, held, mp2)
  BY <1>5, <1>6, <1>7 DEF Due
<1>9. QED BY <1>8, MutexPrioIs

\* The mutex is taken: the caller queues, and lends the owner its priority.
LEMMA TakeBlockBoost ==
  ASSUME IInv, PlainInv, BoostInv, OwnersInv', ListsInv',
         NEW t \in Thread, NEW m \in Mutexes, TakeBlock(t, m)
  PROVE  BoostInv'
<1> DEFINE s == Suspend(sched, t)
           q == EnqueuePrio(waitq[m], t, sched.prio)
<1>1. /\ chain = NoThread /\ LoopAt = NoMutex
      /\ taken' = taken /\ ceiling' = ceiling
  BY DEF TakeBlock, At, LoopAt
<1>2. PICK o \in Thread, p \in Prio : o = owner[m] /\ p = sched.prio[t]
  <2>1. owner[m] \in Thread
    BY DEF TakeBlock, IInv, OwnersInv, TypeOK
  <2>2. sched.prio[t] \in Prio
    BY BoostFacts
  <2>3. QED BY <2>1, <2>2
<1>3. /\ s \in SchedState /\ SchedInv(s) /\ s.prio = sched.prio
  <2>1. /\ s \in SchedState /\ s.cur = sched.cur /\ s.prio = sched.prio
        /\ s.stat = [sched.stat EXCEPT ![t] = "suspend"]
    BY BoostFacts, SuspendState
  <2>2. QueuesAgree(s)
    BY BoostFacts, SuspendQueues DEF SchedInv
  <2>3. sched.cur = t /\ sched.stat \in [Thread -> Stat]
    BY BoostFacts DEF TakeBlock, At, cur, SchedState
  <2>4. QED BY BoostFacts, <2>1, <2>2, <2>3 DEF SchedInv, OneRunning
<1>4. PICK prio \in [Thread -> Prio] : prio = sched.prio
  BY BoostFacts
<1> DEFINE raised == p < mprio[m] /\ p < prio[o]
<1>5. IF raised THEN UpdatePriority(s, o, p) ELSE sched' = s /\ UNCHANGED chain
  BY <1>2, <1>4 DEF TakeBlock
<1> HIDE DEF s
<1>6. \/ raised /\ chain' = o /\ sched'.prio = [prio EXCEPT ![o] = p]
      \/ ~raised /\ chain' = NoThread /\ sched'.prio = prio
  <2>1. CASE raised
    <3>1. p # s.prio[o]
      BY <1>2, <1>3, <1>4, <2>1, ThreadAssumption DEF Prio
    <3>2. chain' = o
      BY <1>5, <2>1, <3>1 DEF UpdatePriority
    <3>3. sched'.prio = [s.prio EXCEPT ![o] = p]
      BY <1>3, <1>5, <2>1, UpdatePriorityInv
    <3>4. QED BY <1>3, <1>4, <2>1, <3>2, <3>3
  <2>2. CASE ~raised
    BY <1>1, <1>3, <1>4, <1>5, <2>2
  <2>3. QED BY <2>1, <2>2
<1>7. /\ waitq' = [waitq EXCEPT ![m] = q]
      /\ mprio' = [mprio EXCEPT ![m] = Min2(@, p)]
  BY <1>2 DEF TakeBlock
<1> HIDE DEF raised
<1>8. ASSUME NEW k \in Mutexes
      PROVE  Ordered(waitq'[k], prio) /\ mprio'[k] = HeadPrio(waitq'[k], prio)
  <2>1. Ordered(waitq[k], prio) /\ mprio[k] = HeadPrio(waitq[k], prio)
    BY <1>1, <1>4, MutexAssumption DEF BoostInv
  <2>2. CASE k = m
    <3>1. waitq[m] \in Seq(Thread)
      BY BoostFacts
    <3>2. Ordered(q, prio) /\ HeadPrio(q, prio) = Min2(mprio[m], p)
      BY <1>2, <1>4, <2>1, <2>2, <3>1, EnqueueOrdered
    <3>3. waitq'[m] = q /\ mprio'[m] = Min2(mprio[m], p)
      BY <1>7, BoostFacts DEF TypeOK
    <3>4. QED BY <2>2, <3>2, <3>3
  <2>3. CASE k # m
    BY <1>7, <2>1, <2>3, BoostFacts DEF TypeOK
  <2>4. QED BY <2>2, <2>3
<1>9. ASSUME NEW y \in Thread
      PROVE  Boosted(y)'
  <2>1. Boosted(y)
    BY <1>1 DEF BoostInv
  <2>2. m \in taken[y] <=> y = o
    BY <1>2, BoostFacts
  <2>3. \A k \in taken[y] \ {m} : mprio'[k] = mprio[k]
    BY <1>7, BoostFacts
  <2>4. CASE y # o
    <3>1. sched'.prio[y] = sched.prio[y]
      BY <1>4, <1>6, <2>4
    <3>2. QED BY <1>1, <2>1, <2>2, <2>3, <2>4, <3>1, SameBoost
  <2>5. CASE y = o
    <3>1. PICK held \in SUBSET Mutexes, mp1 \in [Mutexes -> 0 .. PrioMax],
               mp2 \in [Mutexes -> 0 .. PrioMax] :
            held = taken[y] /\ mp1 = mprio /\ mp2 = mprio'
      <4>1. taken[y] \in SUBSET Mutexes /\ mprio \in [Mutexes -> 0 .. PrioMax]
        BY BoostFacts
      <4>2. mprio' \in [Mutexes -> 0 .. PrioMax]
        BY DEF OwnersInv, TypeOK
      <4>3. QED BY <4>1, <4>2
    <3>2. PICK p1 \in Prio, p2 \in Prio : p1 = prio[y] /\ p2 = sched'.prio[y]
      <4>1. prio[y] \in Prio /\ sched'.prio[y] \in Prio
        BY <1>6
      <4>2. QED BY <4>1
    <3>3. \A k \in Mutexes : ceiling[k] = NoPrio
      BY BoostFacts
    <3>4. mp2[m] = Min2(mp1[m], p)
      BY <1>7, <3>1
    <3>5. p2 = IF p < mp1[m] /\ p < p1 THEN p ELSE p1
      BY <1>6, <2>5, <3>1, <3>2 DEF raised
    <3>6. p1 = MutexPrio(y, held, mp1, ceiling)
      BY <1>4, <2>1, <3>1, <3>2 DEF Boosted
    <3>7. p2 = MutexPrio(y, held, mp2, ceiling)
      BY <2>2, <2>3, <2>5, <3>1, <3>3, <3>4, <3>5, <3>6, RaisedDue
    <3>8. QED BY <1>1, <3>1, <3>2, <3>7 DEF Boosted
  <2>6. QED BY <2>4, <2>5
<1>10. /\ (chain' = NoThread /\ sched'.prio = prio) \/ chain' = o
       /\ \A y \in Thread \ {o} : sched'.prio[y] = prio[y]
  BY <1>6
<1>11. QED BY <1>8, <1>9, <1>10, LoopStep

\* One turn of the loop: the list of the changed thread is put in order, and if
\* that changes what its owner is due, the loop goes on with the owner.
LEMMA PropagateBoost ==
  ASSUME IInv, PlainInv, BoostInv, OwnersInv', ListsInv', Propagate
  PROVE  BoostInv'
<1> DEFINE x  == chain
           m  == pending[x]
           q  == Requeued(x, m)
           mp == [mprio EXCEPT ![m] = HeadPrio(q, sched.prio)]
           p  == MutexPrio(owner[m], taken[owner[m]], mp, ceiling)
<1>1. x \in Thread /\ taken' = taken /\ ceiling' = ceiling
  BY BoostFacts DEF Propagate, TypeOK
<1>2. CASE ~(sched.stat[x] = "suspend" /\ m # NoMutex)
  <2>1. /\ LoopAt = NoMutex /\ chain' = NoThread
        /\ UNCHANGED <<sched, waitq, mprio>>
    BY <1>2 DEF Propagate, LoopAt
  <2>2. LoopAt' = NoMutex
    BY <2>1 DEF LoopAt
  <2>3. QED BY <1>1, <2>1, <2>2 DEF BoostInv, Boosted
<1>3. CASE sched.stat[x] = "suspend" /\ m # NoMutex
  <2>1. LoopAt = m /\ m \in Mutexes
    BY <1>1, <1>3, BoostFacts, ThreadAssumption DEF LoopAt, TypeOK
  <2>2. owner[m] \in Thread
    BY <1>1, <1>3, <2>1, BoostFacts DEF OwnersInv, WaitersListed, TypeOK
  <2>3. PICK k \in Mutexes, o \in Thread : k = m /\ o = owner[m]
    BY <2>1, <2>2
  <2>4. PICK prio \in [Thread -> Prio] : prio = sched.prio
    BY BoostFacts
  <2>5. /\ waitq' = [waitq EXCEPT ![k] = q]
        /\ mprio' = mp
        /\ IF GoesOn(o, p)
           THEN sched' = ChangePrio(sched, o, p) /\ chain' = o
           ELSE UNCHANGED sched /\ chain' = NoThread
    BY <1>3, <2>3 DEF Propagate
  <2>6. p = MutexPrio(o, taken[o], mprio', ceiling)
    BY <2>3, <2>5
  <2>7. mprio' = [mprio EXCEPT ![k] = HeadPrio(q, prio)]
    BY <2>3, <2>4, <2>5
  <2> HIDE DEF p, mp
  <2>8. p \in Prio
    <3>1. taken[o] \in SUBSET Mutexes
      BY BoostFacts
    <3>2. mprio' \in [Mutexes -> 0 .. PrioMax] /\ ceiling \in [Mutexes -> 0 .. PrioMax]
      BY <1>1 DEF OwnersInv, TypeOK
    <3>3. QED BY <2>6, <3>1, <3>2, MutexPrioType
  <2>9. /\ sched'.prio = [prio EXCEPT ![o] = p]
        /\ (chain' = NoThread /\ sched'.prio = prio) \/ chain' = o
    <3>1. CASE GoesOn(o, p)
      <4>1. ChangePrio(sched, o, p).prio = [sched.prio EXCEPT ![o] = p]
        BY <2>8, BoostFacts, ChangePrioInv
      <4>2. QED BY <2>4, <2>5, <3>1, <4>1
    <3>2. CASE ~GoesOn(o, p)
      <4>1. p = prio[o] /\ sched' = sched /\ chain' = NoThread
        BY <2>4, <2>5, <3>2 DEF GoesOn
      <4>2. QED BY <2>4, <4>1
    <3>3. QED BY <3>1, <3>2
  <2>10. ASSUME NEW n \in Mutexes
         PROVE  Ordered(waitq'[n], prio) /\ mprio'[n] = HeadPrio(waitq'[n], prio)
    <3>1. CASE n = k
      <4>1. waitq'[n] = q /\ mprio'[n] = HeadPrio(q, prio)
        BY <2>5, <2>7, <3>1, BoostFacts DEF TypeOK
      <4>2. Ordered(Unlink(waitq[k], x), prio)
        BY <2>1, <2>3, <2>4, MutexAssumption DEF BoostInv
      <4>3. Unlink(waitq[k], x) \in Seq(Thread)
        BY BoostFacts, UnlinkSeq
      <4>4. q = EnqueuePrio(Unlink(waitq[k], x), x, prio)
        BY <2>3, <2>4 DEF Requeued
      <4>5. Ordered(q, prio)
        BY <1>1, <4>2, <4>3, <4>4, EnqueueOrdered
      <4>6. QED BY <4>1, <4>5
    <3>2. CASE n # k
      <4>1. Ordered(waitq[n], prio) /\ mprio[n] = HeadPrio(waitq[n], prio)
        BY <2>1, <2>3, <2>4, <3>2 DEF BoostInv
      <4>2. waitq'[n] = waitq[n] /\ mprio'[n] = mprio[n]
        BY <2>5, <2>7, <3>2, BoostFacts DEF TypeOK
      <4>3. QED BY <4>1, <4>2
    <3>3. QED BY <3>1, <3>2
  <2>11. ASSUME NEW y \in Thread
         PROVE  Boosted(y)'
    <3>1. CASE y # o
      <4>1. Boosted(y)
        BY <2>1, <2>3, <3>1 DEF BoostInv
      <4>2. k \notin taken[y]
        BY <2>3, <3>1, BoostFacts
      <4>3. \A n \in taken[y] : mprio'[n] = mprio[n]
        BY <2>7, <4>2, BoostFacts
      <4>4. sched'.prio[y] = sched.prio[y]
        BY <2>4, <2>9, <3>1
      <4>5. QED BY <1>1, <4>1, <4>3, <4>4, SameBoost
    <3>2. CASE y = o
      <4>1. sched'.prio[o] = p
        BY <2>9
      <4>2. QED BY <1>1, <2>6, <3>2, <4>1 DEF Boosted
    <3>3. QED BY <3>1, <3>2
  <2>12. \A y \in Thread \ {o} : sched'.prio[y] = prio[y]
    BY <2>9
  <2>13. QED BY <2>9, <2>10, <2>11, <2>12, LoopStep
<1>4. QED BY <1>2, <1>3

\* A thread that is above the priority of the first waiter of m is due the same
\* without m: _check_and_update_prio need not look at it.
LEMMA DueWithout ==
  ASSUME NEW t \in Thread, NEW held \in SUBSET Mutexes, NEW m \in Mutexes,
         NEW mp \in [Mutexes -> 0 .. PrioMax],
         NEW ceil, \A k \in Mutexes : ceil[k] = NoPrio,
         NEW p \in Prio, p = MutexPrio(t, held, mp, ceil), p # mp[m]
  PROVE  p = MutexPrio(t, held \ {m}, mp, ceil)
<1>1. Due(p, t, held, mp)
  BY MutexPrioIs
<1>2. PICK left \in SUBSET Mutexes : left = held \ {m}
  OBVIOUS
<1>3. Due(p, t, left, mp)
  BY <1>1, <1>2 DEF Due
<1>4. p = MutexPrio(t, left, mp, ceil)
  BY <1>3, MutexPrioIs
<1>5. QED BY <1>2, <1>4

\* The last release: t gets the priority due to it without m, and the first
\* waiter, which outranks the others, takes m over.
LEMMA ReleaseLastBoost ==
  ASSUME IInv, PlainInv, BoostInv, OwnersInv', ListsInv',
         NEW t \in Thread, NEW m \in Mutexes, ReleaseLast(t, m), UNCHANGED codeVars,
         owner[m] = t, sched.stat[t] # "suspend", chain = NoThread
  PROVE  BoostInv'
<1> DEFINE left == taken[t] \ {m}
           s == CheckedPrio(t, m, left)
           q == waitq[m]
           n == Head(q)
<1>1. /\ LoopAt = NoMutex /\ LoopAt' = NoMutex /\ ceiling' = ceiling
  BY ReleasesToFirst DEF LoopAt, codeVars
<1>2. PICK prio \in [Thread -> Prio] : prio = sched.prio
  BY BoostFacts
<1>3. /\ left \in SUBSET Mutexes /\ m \in taken[t] /\ q \in Seq(Thread)
  BY BoostFacts
<1>4. /\ \A k \in Mutexes : Ordered(waitq[k], prio) /\ mprio[k] = HeadPrio(waitq[k], prio)
      /\ \A y \in Thread : Boosted(y)
  BY <1>1, <1>2, MutexAssumption DEF BoostInv
<1>5. /\ s \in SchedState /\ SchedInv(s) /\ s.stat = sched.stat /\ s.cur = sched.cur
      /\ \A y \in Thread \ {t} : s.prio[y] = prio[y]
  BY <1>2, <1>3, BoostFacts, CheckedPrioInv
<1>6. s.prio[t] = MutexPrio(t, left, mprio, ceiling)
  <2>1. PICK held1 \in SUBSET Mutexes, mp \in [Mutexes -> 0 .. PrioMax], p \in Prio :
          held1 = taken[t] /\ mp = mprio /\ p = prio[t]
    <3>1. taken[t] \in SUBSET Mutexes /\ mprio \in [Mutexes -> 0 .. PrioMax] /\ prio[t] \in Prio
      BY BoostFacts
    <3>2. QED BY <3>1
  <2>2. \A k \in Mutexes : ceiling[k] = NoPrio
    BY BoostFacts
  <2>3. CASE ChecksPrio(t, m)
    <3>1. PICK p2 \in Prio : p2 = MutexPrio(t, left, mprio, ceiling)
      <4>1. ceiling \in [Mutexes -> 0 .. PrioMax] /\ mprio \in [Mutexes -> 0 .. PrioMax]
        BY BoostFacts DEF TypeOK
      <4>2. MutexPrio(t, left, mprio, ceiling) \in Prio
        BY <1>3, <4>1, MutexPrioType
      <4>3. QED BY <4>2
    <3>2. s = ChangePrio(sched, t, p2)
      BY <2>3, <3>1 DEF CheckedPrio
    <3>3. s.prio = [sched.prio EXCEPT ![t] = p2]
      BY <3>2, BoostFacts, ChangePrioInv
    <3>4. QED BY <1>2, <3>1, <3>3
  <2>4. CASE ~ChecksPrio(t, m)
    <3>1. s = sched /\ p # mp[m]
      BY <1>2, <2>1, <2>4, BoostFacts DEF CheckedPrio, ChecksPrio
    <3>2. p = MutexPrio(t, held1, mp, ceiling)
      BY <1>2, <1>4, <2>1 DEF Boosted
    <3>3. p = MutexPrio(t, held1 \ {m}, mp, ceiling)
      BY <2>2, <3>1, <3>2, DueWithout
    <3>4. QED BY <1>2, <2>1, <3>1, <3>3
  <2>5. QED BY <2>3, <2>4
<1>7. sched'.prio = s.prio
  <2>1. CASE q = <<>>
    <3>1. sched' = IF ChecksPrio(t, m) THEN Resched(s) ELSE s
      BY <2>1, ReleasesToFirst
    <3> HIDE DEF s
    <3>2. QED BY <1>5, <3>1, ReschedInv
  <2>2. CASE q # <<>>
    <3>1. sched' = Resched(Insert(s, n)) /\ n \in ToSet(q)
      BY <2>2, ReleasesToFirst
    <3>2. n \in Thread /\ s.stat[n] # "ready"
      BY <1>5, <3>1, BoostFacts
    <3> HIDE DEF s, n
    <3>3. QED BY <1>5, <3>1, <3>2, WakeInv
  <2>3. QED BY <2>1, <2>2
<1> HIDE DEF s
<1>8. /\ waitq' = [waitq EXCEPT ![m] = IF q = <<>> THEN <<>> ELSE Tail(q)]
      /\ mprio' = [mprio EXCEPT ![m] = IF q = <<>> THEN NoPrio ELSE HeadPrio(Tail(q), prio)]
      /\ q = <<>> => taken' = [taken EXCEPT ![t] = left]
      /\ q # <<>> => /\ n \in ToSet(q)
                     /\ taken' = [taken EXCEPT ![t] = left, ![n] = @ \cup {m}]
  BY <1>2, ReleasesToFirst
<1>9. /\ \A k \in Mutexes : waitq'[k] \in Seq(Thread) /\ t \notin ToSet(waitq'[k])
      /\ mprio' \in [Mutexes -> 0 .. PrioMax]
  <2>1. /\ waitq' \in [Mutexes -> Seq(Thread)] /\ mprio' \in [Mutexes -> 0 .. PrioMax]
    BY DEF OwnersInv, TypeOK
  <2>2. \A k \in Mutexes : t \notin ToSet(waitq[k])
    BY BoostFacts
  <2>3. t \notin ToSet(waitq'[m])
    <3>1. CASE q = <<>>
      <4>1. waitq'[m] = waitq[m]
        BY <1>8, <2>1, <3>1
      <4>2. QED BY <2>2, <4>1
    <3>2. CASE q # <<>>
      <4>1. waitq'[m] = Tail(q)
        BY <1>8, <3>2, BoostFacts DEF TypeOK
      <4>2. IsInjective(q)
        BY BoostFacts DEF ListsInv, ListRight
      <4>3. ToSet(Tail(q)) \subseteq ToSet(q)
        BY <1>3, <3>2, <4>2, TailSeq
      <4>4. QED BY <2>2, <4>1, <4>3
    <3>3. QED BY <3>1, <3>2
  <2>4. \A k \in Mutexes \ {m} : waitq'[k] = waitq[k]
    BY <1>8, BoostFacts DEF TypeOK
  <2>5. QED BY <2>1, <2>2, <2>3, <2>4
<1>10. ASSUME NEW k \in Mutexes
       PROVE  Ordered(waitq'[k], sched'.prio) /\ mprio'[k] = HeadPrio(waitq'[k], sched'.prio)
  <2>1. Ordered(waitq'[k], prio) /\ mprio'[k] = HeadPrio(waitq'[k], prio)
    <3>1. CASE k # m
      <4>1. waitq'[k] = waitq[k] /\ mprio'[k] = mprio[k]
        BY <1>8, <3>1, BoostFacts DEF TypeOK
      <4>2. QED BY <1>4, <4>1
    <3>2. CASE k = m /\ q = <<>>
      <4>1. waitq'[k] = q /\ mprio'[k] = NoPrio
        BY <1>8, <3>2, BoostFacts DEF TypeOK
      <4>2. QED BY <1>4, <3>2, <4>1 DEF HeadPrio
    <3>3. CASE k = m /\ q # <<>>
      <4>1. waitq'[k] = Tail(q) /\ mprio'[k] = HeadPrio(Tail(q), prio)
        BY <1>8, <3>3, BoostFacts DEF TypeOK
      <4>2. Ordered(Tail(q), prio)
        BY <1>3, <1>4, <3>3, HeadOrdered
      <4>3. QED BY <4>1, <4>2
    <3>4. QED BY <3>1, <3>2, <3>3
  <2>2. \A y \in ToSet(waitq'[k]) : sched'.prio[y] = prio[y]
    <3>1. \A y \in ToSet(waitq'[k]) : y \in Thread /\ y # t
      BY <1>9, InToSet
    <3>2. QED BY <1>5, <1>7, <3>1
  <2>3. QED BY <1>9, <2>1, <2>2, OrderedAgree
<1>11. ASSUME NEW y \in Thread
       PROVE  Boosted(y)'
  <2>1. \A k \in Mutexes \ {m} : mprio'[k] = mprio[k]
    BY <1>8, BoostFacts DEF TypeOK
  <2>2. CASE y = t
    <3>1. taken'[t] = left
      <4>1. CASE q = <<>>
        BY <1>8, <4>1, BoostFacts DEF TypeOK
      <4>2. CASE q # <<>>
        <5>1. n # t
          BY <1>8, <4>2, BoostFacts
        <5>2. QED BY <1>8, <4>2, <5>1, BoostFacts DEF TypeOK
      <4>3. QED BY <4>1, <4>2
    <3>2. PICK mp1 \in [Mutexes -> 0 .. PrioMax], mp2 \in [Mutexes -> 0 .. PrioMax], p \in Prio :
            mp1 = mprio /\ mp2 = mprio' /\ p = sched'.prio[t]
      <4>1. mprio \in [Mutexes -> 0 .. PrioMax] /\ sched'.prio[t] \in Prio
        BY <1>5, <1>7, BoostFacts DEF SchedState
      <4>2. QED BY <1>9, <4>1
    <3>3. \A k \in Mutexes : ceiling[k] = NoPrio
      BY BoostFacts
    <3>4. p = MutexPrio(t, left, mp1, ceiling)
      BY <1>6, <1>7, <3>2
    <3>5. \A k \in left : mp2[k] = mp1[k]
      BY <1>3, <2>1, <3>2
    <3> HIDE DEF left
    <3>6. p = MutexPrio(t, left, mp2, ceiling)
      BY <1>3, <3>3, <3>4, <3>5, SameDue
    <3>7. QED BY <1>1, <2>2, <3>1, <3>2, <3>6 DEF Boosted
  <2>3. CASE y # t
    <3>1. sched'.prio[y] = sched.prio[y] /\ Boosted(y)
      BY <1>2, <1>4, <1>5, <1>7, <2>3
    <3>2. m \notin taken[y]
      BY <2>3, BoostFacts
    <3>3. CASE q = <<>> \/ y # n
      <4>1. taken'[y] = taken[y]
        BY <1>8, <2>3, <3>3, BoostFacts DEF TypeOK
      <4>2. QED BY <1>1, <2>1, <3>1, <3>2, <4>1, BoostFacts, SameBoost
    <3>4. CASE q # <<>> /\ y = n
      <4>1. taken'[y] = taken[y] \cup {m} /\ mprio'[m] = HeadPrio(Tail(q), prio)
        BY <1>8, <2>3, <3>4, BoostFacts DEF TypeOK
      <4>2. prio[y] <= mprio'[m]
        BY <1>3, <1>4, <3>4, <4>1, HeadOrdered
      <4>3. PICK held1 \in SUBSET Mutexes, held2 \in SUBSET Mutexes,
                 mp1 \in [Mutexes -> 0 .. PrioMax], mp2 \in [Mutexes -> 0 .. PrioMax], p \in Prio :
              /\ held1 = taken[y] /\ held2 = taken'[y]
              /\ mp1 = mprio /\ mp2 = mprio' /\ p = prio[y]
        <5>1. taken[y] \in SUBSET Mutexes /\ mprio \in [Mutexes -> 0 .. PrioMax] /\ prio[y] \in Prio
          BY BoostFacts
        <5>2. taken'[y] \in SUBSET Mutexes
          BY <4>1, <5>1
        <5>3. QED BY <1>9, <5>1, <5>2
      <4>4. \A k \in Mutexes : ceiling[k] = NoPrio
        BY BoostFacts
      <4>5. p = MutexPrio(y, held1, mp1, ceiling)
        BY <1>2, <3>1, <4>3 DEF Boosted
      <4>6. Due(p, y, held1, mp1)
        BY <4>4, <4>5, MutexPrioIs
      <4>7. held2 = held1 \cup {m} /\ p <= mp2[m] /\ \A k \in held1 : mp2[k] = mp1[k]
        BY <2>1, <3>2, <4>1, <4>2, <4>3
      <4>8. Due(p, y, held2, mp2)
        BY <4>6, <4>7 DEF Due
      <4>9. p = MutexPrio(y, held2, mp2, ceiling)
        BY <4>4, <4>8, MutexPrioIs
      <4>10. QED BY <1>1, <1>2, <3>1, <4>3, <4>9 DEF Boosted
    <3>5. QED BY <3>3, <3>4
  <2>4. QED BY <2>2, <2>3
<1>12. QED BY <1>1, <1>10, <1>11 DEF BoostInv

\* The steps of a program that only takes, waits without a timeout, releases,
\* sleeps, yields and exits: no wait of it ends without the mutex.
LEMMA PlainSteps ==
  ASSUME PlainTakes, IInv, PlainInv, [Next]_vars
  PROVE  \/ UNCHANGED vars
         \/ Propagate
         \/ SliceEnds
         \/ \E t \in Thread :
              \/ TakeArm(t) \/ TakeSwitch(t) \/ TakeGranted(t)
              \/ Sleep(t) \/ Exit(t) \/ CloseReturn(t) \/ TimerExpires(t)
              \/ \E m \in Mutexes :
                   \/ TakeAgain(t, m) \/ TakeFree(t, m) \/ TakeBlock(t, m)
                   \/ ReleaseAgain(t, m) \/ Release(t, m) \/ FreeTaken(t, m)
<1>1. Features \subseteq {"exit"}
  BY DEF PlainTakes
<1>2. \A t \in Thread : pc[t] \in {"run", "arm", "block", "wait", "free", "closed"}
  BY DEF PlainInv
<1>3. ASSUME NEW t \in Thread, TakeFailed(t) PROVE FALSE
  <2>1. pc[t] = "wait" /\ sched.stat[t] # "suspend" /\ owner[want[t]] # t
    BY <1>3 DEF TakeFailed, At, LockedPC
  <2>2. QED BY <2>1 DEF PlainInv
<1>4. ASSUME NEW t \in Thread PROVE /\ ~TakeUnlock(t) /\ ~TakeReturn(t)
                                    /\ ~SetCeilingReturn(t)
                                    /\ ~DetachWake(t) /\ ~DetachReturn(t)
  BY <1>2 DEF TakeUnlock, TakeReturn, SetCeilingReturn, DetachWake, DetachReturn, At
<1>5. ASSUME NEW t \in Thread
      PROVE  /\ \A m \in Mutexes : ~Detach(t, m) /\ \A p \in SetPrios : ~SetCeiling(t, m, p)
             /\ \A x \in Thread : /\ ~Resume(t, x) /\ ~Delete(t, x)
                                  /\ \A p \in SetPrios : ~ChangePriority(t, x, p)
  BY <1>1 DEF Detach, SetCeiling, Resume, Delete, ChangePriority
<1>6. QED BY <1>3, <1>4, <1>5 DEF Next, Call, Continue

\* The steps that touch no list and no priority
QuietStep(t) ==
  \/ \E m \in Mutexes : TakeAgain(t, m) \/ ReleaseAgain(t, m)
  \/ TakeArm(t) \/ TakeSwitch(t) \/ TakeGranted(t)
  \/ Sleep(t) \/ Exit(t) \/ CloseReturn(t) \/ TimerExpires(t) \/ SliceEnds

\* A timeout runs only for a thread that sleeps, which is on no wait list.
LEMMA SleeperListed ==
  ASSUME IInv, PlainInv, NEW x \in Thread, timer[x]
  PROVE  /\ sched.stat[x] = "suspend" /\ pc[x] = "run"
         /\ \A m \in Mutexes : Unlink(waitq[m], x) = waitq[m]
<1>1. sched.stat[x] = "suspend" /\ pc[x] = "run"
  BY DEF IInv, ListsInv, WaitRight, PlainInv
<1>2. pending[x] = NoMutex
  BY <1>1 DEF IInv, OwnersInv, PendingOnlyInTake
<1>3. \A m \in Mutexes : x \notin ToSet(waitq[m])
  BY <1>2, BoostFacts, MutexAssumption
<1>4. QED BY <1>1, <1>3, BoostFacts, UnlinkSeq

\* A step that changes no priority, no ceiling and nobody's place on a list keeps
\* inheritance exact.
LEMMA QuietBoost ==
  ASSUME IInv, PlainInv, BoostInv, NEW t \in Thread, QuietStep(t)
  PROVE  BoostInv'
<1>1. chain = NoThread /\ chain' = NoThread
  BY DEF QuietStep, TakeAgain, ReleaseAgain, TakeArm, TakeSwitch, TakeGranted, Sleep, Exit,
         CloseReturn, TimerExpires, SliceEnds, At, IrqEnabled, codeVars
<1>2. UNCHANGED <<mprio, ceiling, taken>>
  BY DEF QuietStep, TakeAgain, ReleaseAgain, TakeArm, TakeSwitch, TakeGranted, Sleep, Exit,
         CloseReturn, TimerExpires, SliceEnds, mutexVars
<1>3. UNCHANGED waitq
  <2>1. CASE TimerExpires(t)
    <3>1. timer[t] /\ waitq' = [m \in Mutexes |-> Unlink(waitq[m], t)]
      BY <2>1 DEF TimerExpires
    <3>2. \A m \in Mutexes : Unlink(waitq[m], t) = waitq[m]
      BY <3>1, SleeperListed
    <3>3. waitq \in [Mutexes -> Seq(Thread)]
      BY BoostFacts DEF TypeOK
    <3>4. QED BY <3>1, <3>2, <3>3
  <2>2. CASE ~TimerExpires(t)
    BY <2>2 DEF QuietStep, TakeAgain, ReleaseAgain, TakeArm, TakeSwitch, TakeGranted, Sleep,
                Exit, CloseReturn, SliceEnds, mutexVars
  <2>3. QED BY <2>1, <2>2
<1>4. sched'.prio = sched.prio
  <2>0. sched \in SchedState /\ SchedInv(sched)
    BY BoostFacts
  <2>1. CASE UNCHANGED sched
    BY <2>1
  <2>2. CASE TakeSwitch(t) \/ CloseReturn(t)
    <3> DEFINE s == ExitCritical(sched)
    <3>1. s \in SchedState /\ SchedInv(s) /\ s.prio = sched.prio
      BY <2>0, ExitCriticalQueues
    <3>2. sched' = Schedule(s) \/ sched' = s
      BY <2>2 DEF TakeSwitch, CloseReturn
    <3> HIDE DEF s
    <3>3. QED BY <3>1, <3>2, ScheduleQueues
  <2>3. CASE Sleep(t)
    <3> DEFINE s == Suspend(sched, t)
    <3>1. t = sched.cur
      BY <2>3 DEF Sleep, At, cur
    <3>2. /\ s \in SchedState /\ s.cur = sched.cur /\ s.prio = sched.prio
          /\ s.stat = [sched.stat EXCEPT ![t] = "suspend"]
      BY <2>0, SuspendState
    <3>3. QueuesAgree(s)
      BY <2>0, SuspendQueues DEF SchedInv
    <3>4. SchedInv(s)
      BY <2>0, <3>1, <3>2, <3>3 DEF SchedInv, OneRunning, SchedState
    <3>5. sched' = Schedule(s)
      BY <2>3 DEF Sleep
    <3> HIDE DEF s
    <3>6. QED BY <3>2, <3>4, <3>5, ScheduleQueues
  <2>4. CASE Exit(t)
    BY <2>0, <2>4, CloseInv DEF Exit
  <2>5. CASE TimerExpires(t)
    <3>1. sched' = Resched(Insert(sched, t)) /\ sched.stat[t] # "ready"
      BY <2>5, SleeperListed DEF TimerExpires
    <3>2. QED BY <2>0, <3>1, WakeInv
  <2>6. CASE SliceEnds
    <3> DEFINE s == [sched EXCEPT !.yield[cur] = TRUE]
    <3>1. cur \in Thread
      BY <2>0 DEF cur, SchedState
    <3>2. s \in SchedState /\ SchedInv(s) /\ s.prio = sched.prio
      BY <2>0, <3>1, YieldQueues
    <3>3. sched' = Resched(s)
      BY <2>6 DEF SliceEnds
    <3> HIDE DEF s
    <3>4. QED BY <3>2, <3>3, ReschedInv
  <2>7. QED BY <2>1, <2>2, <2>3, <2>4, <2>5, <2>6
               DEF QuietStep, TakeAgain, ReleaseAgain, TakeArm, TakeGranted
<1>5. QED BY <1>1, <1>2, <1>3, <1>4, BoostKept

\* Every step keeps lists in priority order and every boost exact, up to the
\* mutex at which the walk of _thread_update_priority stands.
LEMMA NextBoost ==
  ASSUME PlainTakes, IInv, PlainInv, BoostInv, [Next]_vars
  PROVE  BoostInv'
<1>1. OwnersInv' /\ ListsInv'
  BY NextOwners, NextLists DEF IInv
<1>2. CASE UNCHANGED vars
  <2>1. UNCHANGED <<sched, owner, mprio, ceiling, waitq, taken, pending, chain>>
    BY <1>2 DEF vars, mutexVars, threadVars, codeVars
  <2>2. QED BY <2>1 DEF BoostInv, Boosted, LoopAt
<1>3. ASSUME NEW t \in Thread, NEW m \in Mutexes, Release(t, m) \/ FreeTaken(t, m)
      PROVE  BoostInv'
  <2>1. ReleaseLast(t, m) /\ UNCHANGED codeVars
    BY <1>3 DEF Release, FreeTaken
  <2>2. owner[m] = t
    BY <1>3, BoostFacts DEF Release, FreeTaken
  <2>3. At(t, "run") \/ At(t, "free")
    BY <1>3 DEF Release, FreeTaken
  <2>4. chain = NoThread /\ sched.stat[t] # "suspend"
    BY <2>3, BoostFacts, AtAwake DEF At
  <2>5. QED BY <1>1, <2>1, <2>2, <2>4, ReleaseLastBoost
<1>4. Idle \in Thread
  BY ThreadAssumption
<1>5. QED BY <1>1, <1>2, <1>3, <1>4, PlainSteps, PropagateBoost, TakeFreeBoost,
             TakeBlockBoost, QuietBoost DEF QuietStep

-----------------------------------------------------------------------------
(* Priority inheritance: no wait ends without the mutex                    *)

\* Whoever stands in a take and is not suspended was given the mutex: it stays
\* so if nobody leaves a wait list without becoming the owner.
LEMMA GrantKept ==
  ASSUME IInv, IInv', PlainInv,
         \A y \in Thread : pc'[y] \in {"block", "wait"} =>
           \/ pc[y] \in {"block", "wait"} /\ want'[y] = want[y]
           \/ sched'.stat[y] = "suspend",
         \A m \in Mutexes : owner[m] \in Thread /\ pc[owner[m]] \in {"block", "wait"}
                              => owner'[m] = owner[m],
         \A m \in Mutexes : \A y \in ToSet(waitq[m]) :
           \/ y \in ToSet(waitq'[m])
           \/ owner'[m] = y
           \/ pc[y] = "run"
  PROVE  \A y \in Thread : pc'[y] \in {"block", "wait"} /\ sched'.stat[y] # "suspend"
                             => owner'[want'[y]] = y
<1> SUFFICES ASSUME NEW y \in Thread,
                    pc'[y] \in {"block", "wait"}, sched'.stat[y] # "suspend"
             PROVE  owner'[want'[y]] = y
  OBVIOUS
<1>1. pc[y] \in {"block", "wait"} /\ want'[y] = want[y] /\ want[y] \in Mutexes
  BY DEF IInv, OwnersInv, WantKnown
<1>2. CASE sched.stat[y] # "suspend"
  <2>1. owner[want[y]] = y
    BY <1>1, <1>2 DEF PlainInv
  <2>2. QED BY <1>1, <2>1
<1>3. CASE sched.stat[y] = "suspend"
  <2>1. pending[y] = want[y]
    BY <1>1, <1>3 DEF IInv, ListsInv, WaitRight
  <2>2. y \in ToSet(waitq[want[y]])
    BY <1>1, <1>3, <2>1, MutexAssumption DEF IInv, OwnersInv, WaitersListed
  <2>3. y \notin ToSet(waitq'[want[y]])
    BY <1>1 DEF IInv, ListsInv, ListRight
  <2>4. QED BY <1>1, <2>2, <2>3
<1>4. QED BY <1>2, <1>3

\* The steps of a thread that the others do not notice
LEMMA PlainQuiet ==
  ASSUME PlainTakes, IInv, IInv', PlainInv, NEW t \in Thread,
         \/ QuietStep(t)
         \/ \E m \in Mutexes : TakeFree(t, m) \/ TakeBlock(t, m)
  PROVE  PlainInv'
<1>1. /\ pc \in [Thread -> PC] /\ want \in [Thread -> Mutexes \cup {NoMutex}]
      /\ timer \in [Thread -> BOOLEAN] /\ owner \in [Mutexes -> Thread \cup {NoThread}]
      /\ waitq \in [Mutexes -> Seq(Thread)] /\ cur \in Thread
  BY DEF IInv, OwnersInv, TypeOK, SchedState, cur
<1>2. /\ WaitRight(t)
      /\ \A y \in Thread : pc[y] = "free" => y = cur
  BY DEF IInv, OwnersInv, OnlyRunningHoldsLock, LockedPC, ListsInv
<1>3. CASE SliceEnds \/ TimerExpires(t)
  <2>1. /\ UNCHANGED <<owner, live, ceiling, pc, want, victim>>
        /\ chain' = NoThread
        /\ \A y \in Thread : timer'[y] => timer[y]
    BY <1>1, <1>3 DEF SliceEnds, TimerExpires, IrqEnabled, mutexVars, threadVars, codeVars
  <2>2. \A m \in Mutexes : waitq'[m] = waitq[m]
    <3>1. CASE SliceEnds
      BY <3>1 DEF SliceEnds, mutexVars
    <3>2. CASE TimerExpires(t)
      <4>1. timer[t] /\ waitq' = [m \in Mutexes |-> Unlink(waitq[m], t)]
        BY <3>2 DEF TimerExpires
      <4>2. QED BY <4>1, SleeperListed
    <3>3. QED BY <1>3, <3>1, <3>2
  <2>3. \A y \in Thread : pc'[y] \in {"block", "wait"} /\ sched'.stat[y] # "suspend"
                            => owner'[want'[y]] = y
    BY <2>1, <2>2, GrantKept
  <2>4. QED BY <2>1, <2>3 DEF PlainInv
<1>4. CASE ~(SliceEnds \/ TimerExpires(t))
  <2>1. t = cur /\ chain = NoThread
    BY <1>4 DEF QuietStep, TakeAgain, ReleaseAgain, TakeArm, TakeSwitch, TakeGranted, Sleep,
                Exit, CloseReturn, TakeFree, TakeBlock, At
  <2>2. PICK l \in PC : pc' = [pc EXCEPT ![t] = l]
    <3>1. pc' = pc \/ \E l \in PC : pc' = [pc EXCEPT ![t] = l]
      BY <1>4 DEF QuietStep, TakeAgain, ReleaseAgain, TakeArm, TakeSwitch, TakeGranted,
                  Sleep, Exit, CloseReturn, TakeFree, TakeBlock, codeVars, PC
    <3>2. pc = [pc EXCEPT ![t] = pc[t]] /\ pc[t] \in PC
      BY <1>1
    <3>3. QED BY <3>1, <3>2
  <2>3. /\ l \in {"run", "arm", "block", "wait", "free", "closed"}
        /\ pc'[t] = l /\ \A y \in Thread \ {t} : pc'[y] = pc[y]
    <3>1. pc'[t] \in {"run", "arm", "block", "wait", "free", "closed"}
      BY <1>1, <1>4 DEF QuietStep, TakeAgain, ReleaseAgain, TakeArm, TakeSwitch,
           TakeGranted, Sleep, Exit, CloseReturn, TakeFree, TakeBlock, codeVars, At
    <3>2. QED BY <1>1, <2>2, <3>1
  <2>4. UNCHANGED <<live, ceiling>>
    BY <1>4 DEF QuietStep, TakeAgain, ReleaseAgain, TakeArm, TakeSwitch, TakeGranted, Sleep,
                Exit, CloseReturn, TakeFree, TakeBlock, mutexVars
  <2>5. \A y \in Thread \ {t} : timer'[y] => timer[y]
    BY <1>1, <1>4 DEF QuietStep, TakeAgain, ReleaseAgain, TakeArm, TakeSwitch, TakeGranted,
                Sleep, Exit, CloseReturn, TakeFree, TakeBlock, threadVars
  <2>6. timer'[t] => pc'[t] = "run"
    <3>1. CASE TakeArm(t)
      <4>1. Timed = FALSE
        BY MutexAssumption DEF PlainTakes
      <4>2. timer' = [timer EXCEPT ![t] = FALSE]
        BY <3>1, <4>1 DEF TakeArm
      <4>3. QED BY <1>1, <4>2
    <3>2. CASE Sleep(t)
      BY <3>2 DEF Sleep, codeVars, At
    <3>3. CASE \E m \in Mutexes : TakeBlock(t, m)
      BY <1>1, <3>3 DEF TakeBlock
    <3>4. CASE \/ \E m \in Mutexes : TakeAgain(t, m) \/ ReleaseAgain(t, m) \/ TakeFree(t, m)
               \/ TakeGranted(t)
      BY <1>1, <3>4 DEF TakeAgain, ReleaseAgain, TakeGranted, TakeFree, codeVars, At
    <3>5. CASE TakeSwitch(t) \/ Exit(t) \/ CloseReturn(t)
      <4>1. timer' = timer /\ pc[t] \in {"run", "block", "free"}
        BY <3>5 DEF TakeSwitch, Exit, CloseReturn, threadVars, At
      <4>2. Exit(t) => sched.stat[t] # "suspend"
        BY DEF Exit, At, LockedPC
      <4>3. ~timer[t]
        BY <1>2, <3>5, <4>1, <4>2 DEF WaitRight, PlainInv, TakeSwitch, CloseReturn, At
      <4>4. QED BY <4>1, <4>3
    <3>6. QED BY <1>4, <3>1, <3>2, <3>3, <3>4, <3>5 DEF QuietStep
  <2>7. \A y \in Thread : pc'[y] = "free" => victim' = y
    <3>1. ASSUME NEW y \in Thread, pc'[y] = "free" PROVE y = t
      <4>1. pc[y] = "free" \/ y = t
        BY <2>3, <3>1
      <4>2. QED BY <1>2, <2>1, <4>1
    <3>2. pc'[t] = "free" => victim' = t
      BY <1>1, <1>4 DEF QuietStep, TakeAgain, ReleaseAgain, TakeArm, TakeSwitch,
           TakeGranted, Sleep, Exit, CloseReturn, TakeFree, TakeBlock, codeVars, At
    <3>3. QED BY <3>1, <3>2
  <2>8. chain' # NoThread => pc'[cur'] = "arm"
    <3>1. chain' # NoThread => pc'[t] = "arm"
      BY <1>1, <1>4, <2>1 DEF QuietStep, TakeAgain, ReleaseAgain, TakeArm, TakeSwitch,
           TakeGranted, Sleep, Exit, CloseReturn, TakeFree, TakeBlock, codeVars
    <3>2. pc'[t] = "arm" => cur' = t
      BY DEF IInv, OwnersInv, OnlyRunningHoldsLock, LockedPC
    <3>3. QED BY <3>1, <3>2
  <2>9. \A y \in Thread : pc'[y] \in {"block", "wait"} /\ sched'.stat[y] # "suspend"
                            => owner'[want'[y]] = y
    <3>1. \A y \in Thread \ {t} : want'[y] = want[y]
      BY <1>1, <1>4 DEF QuietStep, TakeAgain, ReleaseAgain, TakeArm, TakeSwitch,
           TakeGranted, Sleep, Exit, CloseReturn, TakeFree, TakeBlock, codeVars
    <3>2. pc'[t] \in {"block", "wait"} =>
            \/ pc[t] \in {"block", "wait"} /\ want'[t] = want[t]
            \/ sched'.stat[t] = "suspend"
      <4>1. CASE TakeArm(t)
        <5>1. sched.stat[t] = "suspend" /\ sched' = sched
          BY <1>2, <4>1 DEF TakeArm, At, WaitRight
        <5>2. QED BY <5>1
      <4>2. CASE TakeSwitch(t)
        BY <4>2 DEF TakeSwitch, At
      <4>3. CASE ~TakeArm(t) /\ ~TakeSwitch(t)
        <5>1. pc'[t] \notin {"block", "wait"}
          BY <1>1, <1>4, <4>3 DEF QuietStep, TakeAgain, ReleaseAgain, TakeGranted, Sleep,
             Exit, CloseReturn, TakeFree, TakeBlock, codeVars, At
        <5>2. QED BY <5>1
      <4>4. QED BY <4>1, <4>2, <4>3
    <3>3. \A m \in Mutexes : owner[m] \in Thread => owner'[m] = owner[m]
      BY <1>1, <1>4, ThreadAssumption DEF QuietStep, TakeAgain, ReleaseAgain, TakeArm,
         TakeSwitch, TakeGranted, Sleep, Exit, CloseReturn, TakeFree, TakeBlock, mutexVars
    <3>4. \A m \in Mutexes : \A y \in ToSet(waitq[m]) : y \in ToSet(waitq'[m])
      <4>1. CASE \E m \in Mutexes : TakeBlock(t, m)
        <5>1. PICK m \in Mutexes : waitq' = [waitq EXCEPT ![m] = EnqueuePrio(@, t, sched.prio)]
          BY <4>1 DEF TakeBlock
        <5>2. \A y \in ToSet(waitq[m]) : y \in ToSet(waitq'[m])
          BY <1>1, <5>1, EnqueuePrioSeq
        <5>3. QED BY <1>1, <5>1, <5>2
      <4>2. CASE ~ \E m \in Mutexes : TakeBlock(t, m)
        BY <1>4, <4>2 DEF QuietStep, TakeAgain, ReleaseAgain, TakeArm, TakeSwitch,
           TakeGranted, Sleep, Exit, CloseReturn, TakeFree, mutexVars
      <4>3. QED BY <4>1, <4>2
    <3>5. QED BY <2>3, <3>1, <3>2, <3>3, <3>4, GrantKept
  <2>10. QED BY <2>3, <2>4, <2>5, <2>6, <2>7, <2>8, <2>9 DEF PlainInv
<1>5. QED BY <1>3, <1>4

\* The loop of _thread_update_priority moves nobody on or off a list.
LEMMA PlainLoop ==
  ASSUME IInv, IInv', PlainInv, Propagate
  PROVE  PlainInv'
<1>1. UNCHANGED <<owner, live, ceiling, timer, pc, want, victim>>
  BY DEF Propagate, threadVars
<1>2. chain \in Thread /\ waitq \in [Mutexes -> Seq(Thread)]
  BY DEF Propagate, IInv, OwnersInv, TypeOK
<1>3. pc[cur] = "arm"
  BY <1>2, ThreadAssumption DEF PlainInv
<1>4. cur' = cur
  BY <1>1, <1>3 DEF IInv, OwnersInv, OnlyRunningHoldsLock, LockedPC, TypeOK, SchedState, cur
<1>5. \A m \in Mutexes : \A y \in ToSet(waitq[m]) : y \in ToSet(waitq'[m])
  <2> DEFINE m == pending[chain]
  <2>1. CASE waitq' = [waitq EXCEPT ![m] = Requeued(chain, m)] /\ m \in Mutexes
    <3>1. /\ Unlink(waitq[m], chain) \in Seq(Thread)
          /\ \A y \in ToSet(waitq[m]) : y # chain => y \in ToSet(Unlink(waitq[m], chain))
      BY <1>2, <2>1, UnlinkSeq
    <3>2. \A y \in ToSet(waitq[m]) : y \in ToSet(Requeued(chain, m))
      BY <1>2, <3>1, EnqueuePrioSeq DEF Requeued
    <3>3. QED BY <1>2, <2>1, <3>2
  <2>2. CASE waitq' = waitq
    BY <2>2
  <2>3. QED BY <1>2, <2>1, <2>2, ThreadAssumption DEF Propagate, IInv, OwnersInv, TypeOK
<1>6. \A y \in Thread : pc'[y] \in {"block", "wait"} /\ sched'.stat[y] # "suspend"
                          => owner'[want'[y]] = y
  BY <1>1, <1>5, GrantKept
<1>7. QED BY <1>1, <1>3, <1>4, <1>6 DEF PlainInv

\* The last release: the first waiter leaves the list as the owner.
LEMMA PlainRelease ==
  ASSUME IInv, IInv', PlainInv, NEW t \in Thread, NEW m \in Mutexes,
         Release(t, m) \/ FreeTaken(t, m)
  PROVE  PlainInv'
<1>1. /\ ReleaseLast(t, m) /\ UNCHANGED <<pc, want, chain, victim>>
      /\ chain = NoThread /\ pc[t] \in {"run", "free"} /\ owner[m] = t
  BY BoostFacts DEF Release, FreeTaken, codeVars, At
<1>2. UNCHANGED <<ceiling, live>>
  BY <1>1, ReleasesToFirst
<1>3. /\ waitq \in [Mutexes -> Seq(Thread)] /\ owner \in [Mutexes -> Thread \cup {NoThread}]
      /\ timer \in [Thread -> BOOLEAN]
  BY DEF IInv, OwnersInv, TypeOK
<1>4. \A y \in Thread : timer'[y] => timer[y]
  <2>1. timer' = timer \/ timer' = [timer EXCEPT ![Head(waitq[m])] = FALSE]
    BY <1>1, ReleasesToFirst
  <2>2. QED BY <1>3, <2>1
<1>5. \A k \in Mutexes : owner[k] \in Thread /\ pc[owner[k]] \in {"block", "wait"}
                           => owner'[k] = owner[k]
  <2>1. \A k \in Mutexes : k # m => owner'[k] = owner[k]
    <3>1. CASE waitq[m] = <<>>
      <4>1. owner' = [owner EXCEPT ![m] = NoThread]
        BY <1>1, <3>1, ReleasesToFirst
      <4>2. QED BY <1>3, <4>1
    <3>2. CASE waitq[m] # <<>>
      <4>1. owner' = [owner EXCEPT ![m] = Head(waitq[m])]
        BY <1>1, <3>2, ReleasesToFirst
      <4>2. QED BY <1>3, <4>1
    <3>3. QED BY <3>1, <3>2
  <2>2. QED BY <1>1, <1>3, <2>1
<1>6. ASSUME NEW k \in Mutexes, NEW y \in ToSet(waitq[k])
      PROVE  y \in ToSet(waitq'[k]) \/ owner'[k] = y
  <2>1. CASE waitq[m] = <<>>
    <3>1. waitq' = [waitq EXCEPT ![m] = <<>>]
      BY <1>1, <2>1, ReleasesToFirst
    <3>2. waitq'[k] = waitq[k]
      BY <1>3, <2>1, <3>1
    <3>3. QED BY <3>2
  <2>2. CASE waitq[m] # <<>>
    <3>1. /\ waitq' = [waitq EXCEPT ![m] = Tail(waitq[m])]
          /\ owner' = [owner EXCEPT ![m] = Head(waitq[m])]
      BY <1>1, <2>2, ReleasesToFirst
    <3>2. IsInjective(waitq[m])
      BY DEF IInv, ListsInv, ListRight
    <3>3. ToSet(Tail(waitq[m])) = ToSet(waitq[m]) \ {Head(waitq[m])}
      BY <1>3, <2>2, <3>2, TailSeq
    <3>4. QED BY <1>3, <3>1, <3>3
  <2>3. QED BY <2>1, <2>2
<1>7. \A y \in Thread : pc'[y] \in {"block", "wait"} /\ sched'.stat[y] # "suspend"
                          => owner'[want'[y]] = y
  BY <1>1, <1>5, <1>6, GrantKept
<1>8. QED BY <1>1, <1>2, <1>4, <1>7 DEF PlainInv

\* Where every take waits until it gets the mutex, no step makes a waiter leave
\* before it owns the mutex, closes a mutex or sets a ceiling.
LEMMA NextPlain ==
  ASSUME PlainTakes, IInv, PlainInv, [Next]_vars
  PROVE  PlainInv'
<1>1. IInv'
  BY NextOwners, NextLists DEF IInv
<1>2. CASE UNCHANGED vars
  <2>1. UNCHANGED <<sched, owner, live, ceiling, timer, pc, want, chain, victim>>
    BY <1>2 DEF vars, mutexVars, threadVars, codeVars
  <2>2. QED BY <2>1 DEF PlainInv, cur
<1>3. Idle \in Thread
  BY ThreadAssumption
<1>4. QED BY <1>1, <1>2, <1>3, PlainSteps, PlainQuiet, PlainLoop, PlainRelease DEF QuietStep

-----------------------------------------------------------------------------
(* Priority inheritance: the highest runs                                  *)

\* rt_schedule, called with the scheduler unlocked, leaves the CPU with the
\* highest; called with the scheduler locked it leaves the CPU alone.
LEMMA ReschedHighest ==
  ASSUME IInv', chain = NoThread, pc' = pc,
         NEW s \in SchedState, SchedInv(s), s.cur = sched.cur, sched' = Resched(s)
  PROVE  HighestRuns'
<1>1. CASE pc[cur] \in LockedPC
  <2>1. sched'.cur = sched.cur
    BY <1>1, ScheduleLockedQueues DEF Resched
  <2>2. QED BY <1>1, <2>1 DEF HighestRuns, cur
<1>2. CASE pc[cur] \notin LockedPC
  <2>1. CpuWithHighest(sched')
    BY <1>2, ScheduleQueues DEF Resched
  <2>2. QED BY <2>1 DEF HighestRuns, CpuWithHighest, cur
<1>3. QED BY <1>1, <1>2

\* A release calls rt_schedule, or leaves the scheduler as it is.
LEMMA ReleaseSched ==
  ASSUME IInv, PlainInv, NEW t \in Thread, NEW m \in Mutexes, ReleaseLast(t, m)
  PROVE  \/ sched' = sched
         \/ \E s \in SchedState : SchedInv(s) /\ s.cur = sched.cur /\ sched' = Resched(s)
<1> DEFINE left == taken[t] \ {m}
           s == CheckedPrio(t, m, left)
           q == waitq[m]
           n == Head(q)
<1>1. left \in SUBSET Mutexes
  BY BoostFacts
<1>2. s \in SchedState /\ SchedInv(s) /\ s.stat = sched.stat /\ s.cur = sched.cur
  BY <1>1, BoostFacts, CheckedPrioInv
<1>3. CASE q = <<>>
  <2>1. sched' = IF ChecksPrio(t, m) THEN Resched(s) ELSE s
    BY <1>3, ReleasesToFirst
  <2>2. ~ChecksPrio(t, m) => s = sched
    BY DEF CheckedPrio
  <2> HIDE DEF s
  <2>3. QED BY <1>2, <2>1, <2>2
<1>4. CASE q # <<>>
  <2>1. sched' = Resched(Insert(s, n)) /\ n \in ToSet(q)
    BY <1>4, ReleasesToFirst
  <2>2. n \in Thread /\ s.stat[n] # "ready"
    BY <1>2, <2>1, BoostFacts
  <2> HIDE DEF s, n
  <2>3. /\ Insert(s, n) \in SchedState /\ SchedInv(Insert(s, n))
        /\ Insert(s, n).cur = sched.cur
    BY <1>2, <2>2, InsertInv
  <2>4. QED BY <2>1, <2>3
<1>5. QED BY <1>3, <1>4

\* Who runs on with the scheduler as it was has still the highest priority.
LEMMA SameHighest ==
  ASSUME HighestRuns, chain = NoThread, pc[cur] \notin LockedPC, sched' = sched
  PROVE  HighestRuns'
BY DEF HighestRuns, cur

\* Every step leaves the CPU with the highest ready thread whenever the
\* scheduler is not locked.
LEMMA NextHighest ==
  ASSUME PlainTakes, IInv, PlainInv, HighestRuns, [Next]_vars
  PROVE  HighestRuns'
<1>0. IInv' /\ PlainInv' /\ sched \in SchedState /\ SchedInv(sched)
  BY NextOwners, NextLists, NextPlain, BoostFacts DEF IInv
<1>1. CASE UNCHANGED vars
  <2>1. UNCHANGED <<sched, chain, pc>>
    BY <1>1 DEF vars, codeVars
  <2>2. QED BY <2>1 DEF HighestRuns, cur
<1>2. CASE Propagate
  <2>1. chain # NoThread /\ pc' = pc
    BY <1>2 DEF Propagate
  <2>2. pc[cur] = "arm" /\ cur \in Thread
    BY <1>0, <2>1 DEF PlainInv, cur, SchedState
  <2>3. pc'[cur] \in LockedPC
    BY <2>1, <2>2 DEF LockedPC
  <2>4. cur' = cur
    BY <1>0, <2>2, <2>3 DEF IInv, OwnersInv, OnlyRunningHoldsLock
  <2>5. QED BY <2>3, <2>4 DEF HighestRuns
<1>3. CASE SliceEnds
  <2> DEFINE s == [sched EXCEPT !.yield[cur] = TRUE]
  <2>1. cur \in Thread
    BY <1>0 DEF cur, SchedState
  <2>2. s \in SchedState /\ SchedInv(s) /\ s.cur = sched.cur
    BY <1>0, <2>1, YieldQueues
  <2>3. sched' = Resched(s) /\ chain = NoThread /\ pc' = pc
    BY <1>3 DEF SliceEnds, IrqEnabled, codeVars
  <2> HIDE DEF s
  <2>4. QED BY <1>0, <2>2, <2>3, ReschedHighest
<1>4. ASSUME NEW t \in Thread, TimerExpires(t)
      PROVE  HighestRuns'
  <2>1. /\ chain = NoThread /\ pc' = pc /\ sched' = Resched(Insert(sched, t))
        /\ sched.stat[t] # "ready"
    BY <1>4, SleeperListed DEF TimerExpires, IrqEnabled, codeVars
  <2>2. /\ Insert(sched, t) \in SchedState /\ SchedInv(Insert(sched, t))
        /\ Insert(sched, t).cur = sched.cur
    BY <1>0, <2>1, InsertInv
  <2>3. QED BY <1>0, <2>1, <2>2, ReschedHighest
<1>5. ASSUME NEW t \in Thread, NEW m \in Mutexes, Release(t, m) \/ FreeTaken(t, m)
      PROVE  HighestRuns'
  <2>1. /\ ReleaseLast(t, m) /\ pc' = pc /\ chain = NoThread
    BY <1>5 DEF Release, FreeTaken, codeVars, At
  <2>2. \/ sched' = sched
        \/ \E s \in SchedState : SchedInv(s) /\ s.cur = sched.cur /\ sched' = Resched(s)
    BY <2>1, ReleaseSched
  <2>3. CASE sched' = sched
    BY <2>1, <2>3 DEF HighestRuns, cur, Release, FreeTaken, codeVars
  <2>4. CASE \E s \in SchedState : SchedInv(s) /\ s.cur = sched.cur /\ sched' = Resched(s)
    BY <1>0, <2>1, <2>4, ReschedHighest
  <2>5. QED BY <2>2, <2>3, <2>4
<1>6. ASSUME NEW t \in Thread,
             \/ \E m \in Mutexes : TakeAgain(t, m) \/ TakeFree(t, m) \/ ReleaseAgain(t, m)
             \/ TakeGranted(t)
      PROVE  HighestRuns'
  <2>1. /\ pc[cur] \notin LockedPC /\ chain = NoThread
    BY <1>6 DEF TakeAgain, TakeFree, ReleaseAgain, TakeGranted, At, LockedPC
  <2>2. sched' = sched
    <3>1. ASSUME NEW m \in Mutexes, TakeFree(t, m) PROVE sched' = sched
      <4>1. ceiling[m] = PrioMax /\ sched.prio[t] \in 0 .. PrioMax - 1 /\ PrioMax \in Nat
        BY BoostFacts, ThreadAssumption DEF Prio, NoPrio
      <4>2. ~(ceiling[m] < sched.prio[t])
        BY <4>1
      <4>3. QED BY <3>1, <4>2 DEF TakeFree
    <3>2. QED BY <1>6, <3>1 DEF TakeAgain, ReleaseAgain, TakeGranted
  <2>3. QED BY <2>1, <2>2, SameHighest
<1>7. ASSUME NEW t \in Thread, (\E m \in Mutexes : TakeBlock(t, m)) \/ TakeArm(t) \/ Exit(t)
      PROVE  HighestRuns'
  <2>1. pc'[t] \in LockedPC
    BY <1>0, <1>7 DEF TakeBlock, TakeArm, Exit, LockedPC, IInv, OwnersInv, TypeOK
  <2>2. cur' = t
    BY <1>0, <2>1 DEF IInv, OwnersInv, OnlyRunningHoldsLock
  <2>3. QED BY <2>1, <2>2 DEF HighestRuns
<1>8. ASSUME NEW t \in Thread, TakeSwitch(t) \/ Sleep(t) \/ CloseReturn(t)
      PROVE  HighestRuns'
  <2>1. PICK s \in SchedState : SchedInv(s) /\ sched' = Schedule(s)
    <3>1. CASE TakeSwitch(t)
      BY <1>0, <3>1, ExitCriticalQueues DEF TakeSwitch
    <3>2. CASE CloseReturn(t)
      <4>1. victim = t
        BY <3>2 DEF CloseReturn, At, PlainInv
      <4>2. QED BY <1>0, <3>2, <4>1, ExitCriticalQueues DEF CloseReturn
    <3>3. CASE Sleep(t)
      <4> DEFINE s == Suspend(sched, t)
      <4>1. t = sched.cur
        BY <3>3 DEF Sleep, At, cur
      <4>2. /\ s \in SchedState /\ s.cur = sched.cur
            /\ s.stat = [sched.stat EXCEPT ![t] = "suspend"]
        BY <1>0, SuspendState
      <4>3. QueuesAgree(s)
        BY <1>0, SuspendQueues DEF SchedInv
      <4>4. SchedInv(s)
        BY <1>0, <4>1, <4>2, <4>3 DEF SchedInv, OneRunning, SchedState
      <4>5. QED BY <3>3, <4>2, <4>4 DEF Sleep
    <3>4. QED BY <1>8, <3>1, <3>2, <3>3
  <2>2. CpuWithHighest(sched')
    BY <2>1, ScheduleQueues
  <2>3. QED BY <2>2 DEF HighestRuns, CpuWithHighest, cur
<1>9. QED BY <1>1, <1>2, <1>3, <1>4, <1>5, <1>6, <1>7, <1>8, PlainSteps

\* The inheritance invariant holds at start: no lists, no boosts.
LEMMA InitInherit == Init => PlainInv /\ BoostInv /\ HighestRuns
<1> SUFFICES ASSUME Init PROVE PlainInv /\ BoostInv /\ HighestRuns
  OBVIOUS
<1>1. PlainInv
  BY ThreadAssumption DEF Init, PlainInv, AllAsleep
<1>2. HighestRuns
  BY DEF Init, HighestRuns, AllAsleep, cur
<1>3. BoostInv
  <2>1. LoopAt = NoMutex
    BY DEF Init, LoopAt
  <2>2. \A m \in Mutexes : Ordered(waitq[m], sched.prio) /\ mprio[m] = HeadPrio(waitq[m], sched.prio)
    <3>1. \A m \in Mutexes : waitq[m] = <<>> /\ mprio[m] = NoPrio
      BY DEF Init
    <3>2. Len(<<>>) = 0
      BY EmptySeq
    <3>3. \A i, j \in 1 .. Len(<<>>) : i < j => sched.prio[<<>>[i]] <= sched.prio[<<>>[j]]
      BY <3>2
    <3>4. Ordered(<<>>, sched.prio)
      BY <3>3, OrderedIs
    <3>5. QED BY <3>1, <3>4 DEF HeadPrio
  <2>3. ASSUME NEW t \in Thread PROVE Boosted(t)
    <3>1. PICK mp \in [Mutexes -> 0 .. PrioMax], ceil \in [Mutexes -> 0 .. PrioMax], p \in Prio :
            mp = mprio /\ ceil = ceiling /\ p = sched.prio[t] /\ p = InitPrio[t]
      BY ThreadAssumption DEF Init, AllAsleep, NoPrio
    <3>2. \A m \in Mutexes : ceil[m] = NoPrio
      BY <3>1 DEF Init
    <3>3. p <= InitPrio[t]
      BY <3>1 DEF Prio
    <3>4. p = MutexPrio(t, {}, mp, ceil)
      <4>1. {} \in SUBSET Mutexes /\ p = InitPrio[t]
        BY <3>1
      <4>2. Due(p, t, {}, mp)
        BY <3>3, <4>1 DEF Due
      <4>3. QED BY <3>2, <4>1, <4>2, MutexPrioIs
    <3>5. taken[t] = {}
      BY DEF Init
    <3>6. QED BY <3>1, <3>4, <3>5 DEF Boosted
  <2>4. QED BY <2>1, <2>2, <2>3 DEF BoostInv
<1>4. QED BY <1>1, <1>2, <1>3

\* Under the programs that PlainTakes describes, whatever the number of threads
\* and mutexes, their priorities and the order in which mutexes are taken.
LEMMA InheritHolds ==
  ASSUME PlainTakes
  PROVE  Spec => [](IInv /\ InheritInv)
<1>1. Init => IInv /\ InheritInv
  BY InitOwners, InitLists, InitInherit DEF IInv, InheritInv
<1>2. IInv /\ InheritInv /\ [Next]_vars => (IInv /\ InheritInv)'
  <2>1. IInv /\ [Next]_vars => IInv'
    BY NextOwners, NextLists DEF IInv
  <2>2. QED BY <2>1, NextPlain, NextBoost, NextHighest DEF InheritInv
<1>3. QED BY <1>1, <1>2, PTL DEF Spec

-----------------------------------------------------------------------------
(* The theorems                                                             *)

\* The inductive invariant holds of every run of the kernel: with any number of
\* threads and mutexes, any priorities, timeouts or none, and every operation.
THEOREM Inductive == Spec => []IInv
<1>1. Init => IInv
  BY InitOwners, InitLists DEF IInv
<1>2. IInv /\ [Next]_vars => IInv'
  BY NextOwners, NextLists DEF IInv
<1>3. QED BY <1>1, <1>2, PTL DEF Spec

\* Type correctness: in particular rt_mutex_release and _thread_update_priority
\* never store anything but a thread in mutex->owner, a priority in
\* current_priority, a count within RT_MUTEX_HOLD_MAX in mutex->hold.
THEOREM TypeCorrect == Spec => []TypeOK
<1>1. IInv => TypeOK
  BY DEF IInv, OwnersInv
<1>2. QED BY <1>1, Inductive, PTL

\* mutex->owner, mutex->hold and taken_object_list agree, also after hand-overs,
\* timeouts, detached mutexes, exits and deletions of threads.
THEOREM OwnersAgree == Spec => []OwnerConsistent
<1>1. IInv => OwnerConsistent
  BY DEF IInv, OwnersInv
<1>2. QED BY <1>1, Inductive, PTL

\* A thread suspended on a mutex is on its list and the mutex has an owner: the
\* loop of _thread_update_priority never follows an owner that is RT_NULL, and
\* no waiter is forgotten by a release.
THEOREM NoWaiterForgotten == Spec => []WaitersListed
<1>1. IInv => WaitersListed
  BY DEF IInv, OwnersInv
<1>2. QED BY <1>1, Inductive, PTL

\* While the scheduler is locked no other thread gets the CPU.
THEOREM SchedulerLockHolds == Spec => []OnlyRunningHoldsLock
<1>1. IInv => OnlyRunningHoldsLock
  BY DEF IInv, OwnersInv
<1>2. QED BY <1>1, Inductive, PTL

\* The one list node of a thread is where its state says: no hand-over, timeout,
\* change of priority, exit or deletion leaves a thread on a list that it does
\* not belong on, on two lists, or off the ready queue that it should stand on.
THEOREM OneListAlways == Spec => []OneList
<1>1. IInv => OneList
  <2> SUFFICES ASSUME IInv PROVE OneList
    OBVIOUS
  <2>0. TypeOK /\ sched \in SchedState /\ QueuesAgree(sched)
    BY DEF IInv, OwnersInv, TypeOK, ListsInv, SchedInv
  <2>1. \A p \in Prio : sched.ready[p] \in Seq(Thread)
    BY <2>0 DEF SchedState
  <2>2. \A p \in Prio : \A t \in ToSet(sched.ready[p]) : t \in Thread
    BY <2>1, InToSet
  <2>3. \A t \in Thread : sched.prio[t] \in Prio
    BY <2>0 DEF SchedState
  <2>4. \A m \in Mutexes : ListRight(m)
    BY DEF IInv, ListsInv
  <2>5. QED BY <2>0, <2>2, <2>3, <2>4 DEF OneList, QueuesAgree, ListRight
<1>2. QED BY <1>1, Inductive, PTL

\* No hand-over is lost: whoever waits for a mutex waits for another thread.
THEOREM NoLostHandover == Spec => []NobodyWaitsForFree
<1>1. IInv => NobodyWaitsForFree
  <2> SUFFICES ASSUME IInv, NEW m \in Mutexes, NEW t \in ToSet(waitq[m])
               PROVE  owner[m] # NoThread /\ owner[m] # t
    BY DEF NobodyWaitsForFree
  <2>1. t \in Thread /\ sched.stat[t] = "suspend" /\ pending[t] = m
    <3>1. waitq[m] \in Seq(Thread)
      BY DEF IInv, OwnersInv, TypeOK
    <3>2. QED BY <3>1, InToSet DEF IInv, ListsInv, ListRight
  <2>2. m # NoMutex
    BY MutexAssumption
  <2>3. owner[m] # NoThread
    BY <2>1, <2>2 DEF IInv, OwnersInv, WaitersListed
  <2>4. pc[t] \in {"arm", "block", "wait"}
    BY <2>1, <2>2 DEF IInv, OwnersInv, PendingOnlyInTake, ListsInv, WaitRight
  <2>5. WaitRight(t)
    BY <2>1 DEF IInv, ListsInv
  <2>6. QED BY <2>1, <2>3, <2>4, <2>5 DEF WaitRight
<1>2. QED BY <1>1, Inductive, PTL

\* A wait ends in one way: the assertion of _rt_mutex_take that a granted mutex
\* comes with no error holds, and so does that of _thread_timeout that the
\* thread whose timeout expires is suspended.
THEOREM OneEndOfAWait == Spec => []CleanEnd
<1>1. IInv => CleanEnd
  BY DEF IInv, OwnersInv, TimersAgree, ListsInv, WaitRight, CleanEnd, GrantedCleanly,
         TimerOnlyWhenSuspended
<1>2. QED BY <1>1, Inductive, PTL

\* What a mutex promises, step by step: a release hands it to a waiter or, if
\* there is none, frees it; it is never free while a thread waits; nobody gets
\* it but by a release.  The end of a thread releases at once what it took
\* several times, and nobody takes anything meanwhile.
THEOREM MutexImplementsLock == Spec => ImplementsLock
<1>1. Init => IInv /\ Lock!LockInit /\ VictimFreed
  BY InitOwners, InitLists, InitLock DEF IInv
<1>2. IInv /\ VictimFreed /\ [Next]_vars
        => IInv' /\ VictimFreed' /\ [Lock!LockNext]_(Lock!lockVars)
  BY NextOwners, NextLists, VictimFreedStep, NextLock DEF IInv, OwnersInv, LockStep
<1>3. QED BY <1>1, <1>2, PTL DEF Spec, ImplementsLock, Lock!LockSpec

-----------------------------------------------------------------------------
(* Priority inheritance, for programs whose takes wait until they succeed   *)

\* A wait list is in priority order whenever no change of a priority is under
\* way, although the priorities change while threads stand on it.
THEOREM ListsSorted ==
  ASSUME PlainTakes
  PROVE  Spec => []WaitSorted
<1>1. IInv /\ InheritInv => WaitSorted
  BY MutexAssumption DEF InheritInv, BoostInv, WaitSorted, LoopAt
<1>2. QED BY <1>1, InheritHolds, PTL

\* Every thread has exactly the priority that its own and its mutexes call for:
\* no release and no chain of owners leaves a boost behind or forgets one.
THEOREM BoostIsExact ==
  ASSUME PlainTakes
  PROVE  Spec => []ExactBoost
<1>1. IInv /\ InheritInv => ExactBoost
  BY DEF InheritInv, BoostInv, ExactBoost, LoopAt
<1>2. QED BY <1>1, InheritHolds, PTL

\* Inheritance is transitive: nobody waits for an owner of lower priority, also
\* through a chain of owners that wait themselves, and also if they wait in a
\* circle.
THEOREM InheritsAlways ==
  ASSUME PlainTakes
  PROVE  Spec => []Inherits
<1>1. IInv /\ InheritInv => Inherits
  <2> SUFFICES ASSUME IInv, InheritInv, chain = NoThread,
                      NEW m \in Mutexes, NEW t \in ToSet(waitq[m])
               PROVE  sched.prio[owner[m]] <= sched.prio[t]
    BY DEF Inherits
  <2>1. PlainInv /\ BoostInv /\ LoopAt = NoMutex
    BY DEF InheritInv, LoopAt
  <2>2. t \in Thread /\ sched.stat[t] = "suspend" /\ pending[t] = m
    BY <2>1, BoostFacts
  <2>3. PICK o \in Thread : o = owner[m]
    <3>1. owner[m] # NoThread /\ owner[m] \in Thread \cup {NoThread}
      BY <2>2, MutexAssumption DEF IInv, OwnersInv, WaitersListed, TypeOK
    <3>2. QED BY <3>1
  <2>4. PICK held \in SUBSET Mutexes, mp \in [Mutexes -> 0 .. PrioMax], p \in Prio :
          held = taken[o] /\ mp = mprio /\ p = sched.prio[o]
    <3>1. taken[o] \in SUBSET Mutexes /\ mprio \in [Mutexes -> 0 .. PrioMax]
      BY <2>1, BoostFacts
    <3>2. sched.prio[o] \in Prio
      BY <2>1, BoostFacts
    <3>3. QED BY <3>1, <3>2
  <2>5. \A k \in Mutexes : ceiling[k] = NoPrio
    BY <2>1, BoostFacts
  <2>6. p = MutexPrio(o, held, mp, ceiling)
    BY <2>1, <2>4 DEF BoostInv, Boosted
  <2>7. \A k \in held : p <= mp[k]
    <3>1. Due(p, o, held, mp)
      BY <2>5, <2>6, MutexPrioIs
    <3>2. QED BY <3>1 DEF Due
  <2>8. m \in held
    BY <2>1, <2>3, <2>4, BoostFacts
  <2>9. mprio[m] <= sched.prio[t]
    <3>1. Ordered(waitq[m], sched.prio) /\ mprio[m] = HeadPrio(waitq[m], sched.prio)
      BY <2>1, MutexAssumption DEF BoostInv
    <3>2. waitq[m] \in Seq(Thread) /\ sched.prio \in [Thread -> Prio]
      BY <2>1, BoostFacts
    <3>3. QED BY <3>1, <3>2, HeadOrdered
  <2>10. sched.prio[t] \in Nat /\ mp[m] \in Nat /\ p \in Nat
    BY <2>1, <2>2, ThreadAssumption, BoostFacts DEF Prio
  <2>11. QED BY <2>3, <2>4, <2>7, <2>8, <2>9, <2>10
<1>2. QED BY <1>1, InheritHolds, PTL

\* Outside of a critical section the CPU is with the highest: no lent priority,
\* hand-over or timeout leaves a thread waiting for the CPU that outranks the
\* one that has it.
THEOREM HighestAlwaysRuns ==
  ASSUME PlainTakes
  PROVE  Spec => []HighestRuns
<1>1. IInv /\ InheritInv => HighestRuns
  BY DEF InheritInv
<1>2. QED BY <1>1, InheritHolds, PTL

\* A mutex that is waited for goes from its owner to a waiter that no other one
\* outranks, at the end of a thread too.
THEOREM HandsToHighest ==
  ASSUME PlainTakes
  PROVE  Spec => HandoverToHighest
<1>1. IInv /\ InheritInv /\ [Next]_vars => [GoesToHighest]_vars
  <2> SUFFICES ASSUME IInv, InheritInv, [Next]_vars, NEW m \in Mutexes,
                      owner'[m] # owner[m], owner[m] # NoThread, waitq[m] # <<>>
               PROVE  /\ owner'[m] \in ToSet(waitq[m])
                      /\ \A u \in ToSet(waitq[m]) : sched.prio[owner'[m]] <= sched.prio[u]
    BY DEF GoesToHighest
  <2>1. PlainInv /\ BoostInv /\ owner \in [Mutexes -> Thread \cup {NoThread}]
    BY DEF InheritInv, IInv, OwnersInv, TypeOK
  <2>2. PICK t \in Thread, k \in Mutexes : Release(t, k) \/ FreeTaken(t, k)
    <3>1. ASSUME NEW t \in Thread, NEW k \in Mutexes, TakeFree(t, k) PROVE FALSE
      BY <2>1, <3>1 DEF TakeFree
    <3>2. ASSUME UNCHANGED owner PROVE FALSE
      BY <3>2
    <3>3. QED BY <2>1, <3>1, <3>2, PlainSteps
              DEF vars, mutexVars, threadVars, codeVars, Propagate, SliceEnds, TakeArm,
                  TakeSwitch, TakeGranted, Sleep, Exit, CloseReturn, TimerExpires,
                  TakeAgain, TakeBlock, ReleaseAgain
  <2>3. ReleaseLast(t, k) /\ chain = NoThread
    BY <2>2 DEF Release, FreeTaken, At
  <2>4. k = m
    <3>1. CASE waitq[k] = <<>>
      <4>1. owner' = [owner EXCEPT ![k] = NoThread]
        BY <2>3, <3>1, ReleasesToFirst
      <4>2. QED BY <2>1, <4>1
    <3>2. CASE waitq[k] # <<>>
      <4>1. owner' = [owner EXCEPT ![k] = Head(waitq[k])]
        BY <2>3, <3>2, ReleasesToFirst
      <4>2. QED BY <2>1, <4>1
    <3>3. QED BY <3>1, <3>2
  <2>5. owner'[m] = Head(waitq[m]) /\ Head(waitq[m]) \in ToSet(waitq[m])
    <3>1. owner' = [owner EXCEPT ![m] = Head(waitq[m])] /\ Head(waitq[m]) \in ToSet(waitq[m])
      BY <2>3, <2>4, ReleasesToFirst
    <3>2. QED BY <2>1, <3>1
  <2>6. Ordered(waitq[m], sched.prio)
    BY <2>1, <2>3, MutexAssumption DEF BoostInv, LoopAt
  <2>7. waitq[m] \in Seq(Thread) /\ sched.prio \in [Thread -> Prio]
    BY <2>1, BoostFacts
  <2>8. \A u \in ToSet(waitq[m]) : sched.prio[Head(waitq[m])] <= sched.prio[u]
    BY <2>6, <2>7, HeadOrdered
  <2>9. QED BY <2>5, <2>8
<1>2. QED BY <1>1, InheritHolds, PTL DEF Spec, HandoverToHighest
=============================================================================
