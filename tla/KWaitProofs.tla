---------------------------- MODULE KWaitProofs ----------------------------
(***************************************************************************)
(* What the steps of KWait do to the waits, for any number of threads and  *)
(* wait lists: each keeps WaitInv, and the lemma says which threads leave  *)
(* or enter a list and which errors change, which is all that the proofs   *)
(* about an object need to know of them.                                   *)
(***************************************************************************)
EXTENDS KWait, KSchedProofs

-----------------------------------------------------------------------------
(* Waking                                                                  *)

\* No suspended thread enters a call or leaves one: only a thread that runs
\* does, and that is at most the caller.
SleepersStay(L) ==
  /\ pc' \in [Thread -> L]
  /\ \A x \in Thread :
       sched.stat[x] = "suspend" => (pc'[x] = "run" <=> pc[x] = "run")

\* An interrupt handler, or a call that goes on where it stands, moves nobody.
LEMMA SamePc ==
  ASSUME NEW L, WaitTypeOK(L), UNCHANGED pc
  PROVE  SleepersStay(L)
BY DEF WaitTypeOK, SleepersStay

\* The lists stay as they are, and no suspended thread gets elsewhere.
LEMMA GoOnWait ==
  ASSUME NEW L, WaitTypeOK(L), WaitInv,
         sched' \in SchedState, SchedInv(sched'), SameSleepers(sched, sched'),
         UNCHANGED <<waitq, timer, ttmr>>,
         pc' \in [Thread -> L], err' \in [Thread -> Err],
         \A x \in Thread : sched.stat[x] = "suspend" =>
           err'[x] = err[x] /\ (pc'[x] = "run" <=> pc[x] = "run")
  PROVE  WaitTypeOK(L)' /\ WaitInv'
<1>1. WaitTypeOK(L)'
  BY DEF WaitTypeOK
<1>2. \A x \in Thread : sched'.stat[x] = "suspend" <=> sched.stat[x] = "suspend"
  BY DEF SameSleepers
<1>3. ASSUME NEW q \in Queue, NEW x \in ToSet(waitq'[q])
      PROVE  /\ sched'.stat[x] = "suspend" /\ pc'[x] # "run" /\ err'[x] = "intr"
             /\ \A p \in Queue : x \in ToSet(waitq'[p]) => p = q
  <2>1. x \in Thread
    BY <1>3, InToSet DEF WaitTypeOK
  <2>2. /\ sched.stat[x] = "suspend" /\ pc[x] # "run" /\ err[x] = "intr"
        /\ \A p \in Queue : x \in ToSet(waitq[p]) => p = q
    BY <1>3 DEF WaitInv, ListsAgree
  <2>3. QED BY <1>2, <2>1, <2>2
<1>4. ASSUME NEW x \in Thread, sched'.stat[x] = "suspend", pc'[x] # "run"
      PROVE  \E q \in Queue : x \in ToSet(waitq'[q])
  <2>1. sched.stat[x] = "suspend" /\ pc[x] # "run"
    BY <1>2, <1>4
  <2>2. QED BY <2>1 DEF WaitInv, ListsAgree
<1>5. \A q \in Queue : IsInjective(waitq'[q])
  BY DEF WaitInv, ListsAgree
<1>6. ListsAgree'
  BY <1>3, <1>4, <1>5 DEF ListsAgree
<1>7. TimersAgree'
  BY <1>2 DEF WaitInv, TimersAgree
<1>8. QED BY <1>1, <1>6, <1>7 DEF WaitInv

\* A list of one thread
LEMMA SingleSeq ==
  ASSUME NEW h \in Thread
  PROVE  <<h>> \in Seq(Thread) /\ IsInjective(<<h>>) /\ ToSet(<<h>>) = {h}
<1>1. <<h>> \in Seq(Thread) /\ Len(<<h>>) = 1 /\ <<h>>[1] = h
  OBVIOUS
<1>2. \A x : x \in ToSet(<<h>>) <=> \E k \in 1 .. 1 : <<h>>[k] = x
  BY <1>1, InToSet
<1>3. ToSet(<<h>>) = {h}
  BY <1>1, <1>2
<1>4. \A j, k \in 1 .. Len(<<h>>) : <<h>>[j] = <<h>>[k] => j = k
  BY <1>1
<1>5. IsInjective(<<h>>)
  BY <1>1, <1>4, InjectiveSeq
<1>6. QED BY <1>1, <1>3, <1>5

\* rt_sched_thread_ready does not fail on a waiter, so that a loop of
\* rt_susp_list_resume_all reaches the end of the list, and the first one can
\* be dequeued.
LEMMA AllOfIs ==
  ASSUME NEW L, WaitTypeOK(L), WaitInv, NEW q \in Queue
  PROVE  /\ AllOf(q) = waitq[q]
         /\ FirstOf(q) = IF waitq[q] = <<>> THEN <<>> ELSE <<Head(waitq[q])>>
<1>1. waitq[q] \in Seq(Thread)
  BY DEF WaitTypeOK
<1>2. ASSUME NEW i \in 1 .. Len(waitq[q])
      PROVE  CanReady(waitq[q][i])
  <2>1. waitq[q][i] \in ToSet(waitq[q]) /\ waitq[q][i] \in Thread
    BY <1>1, InToSet
  <2>2. QED BY <2>1 DEF WaitInv, ListsAgree, TimersAgree, CanReady
<1>3. AllOf(q) = waitq[q]
  BY <1>2 DEF AllOf
<1>4. QED BY <1>3 DEF FirstOf

\* Threads that were suspended can run again and leave their lists, whatever
\* ended their waits; all else stays.
LEMMA LeaveWait ==
  ASSUME NEW L, WaitTypeOK(L), WaitInv, NEW W \in SUBSET Thread,
         sched' \in SchedState, SchedInv(sched'),
         \A t \in Thread : sched'.stat[t] = "suspend"
                             <=> sched.stat[t] = "suspend" /\ t \notin W,
         waitq' \in [Queue -> Seq(Thread)],
         \A q \in Queue : /\ ToSet(waitq'[q]) = ToSet(waitq[q]) \ W
                          /\ IsInjective(waitq'[q]),
         err' \in [Thread -> Err], timer' \in [Thread -> BOOLEAN],
         ttmr' \in [Thread -> BOOLEAN], SleepersStay(L),
         \A t \in W : ~timer'[t],
         \A t \in Thread \ W :
           err'[t] = err[t] /\ timer'[t] = timer[t] /\ ttmr'[t] = ttmr[t]
  PROVE  WaitTypeOK(L)' /\ WaitInv'
<1>1. WaitTypeOK(L)'
  BY DEF WaitTypeOK, SleepersStay
<1>2. ASSUME NEW q \in Queue, NEW t \in ToSet(waitq'[q])
      PROVE  /\ sched'.stat[t] = "suspend" /\ pc'[t] # "run" /\ err'[t] = "intr"
             /\ \A p \in Queue : t \in ToSet(waitq'[p]) => p = q
  <2>1. t \in ToSet(waitq[q]) /\ t \notin W
    BY <1>2
  <2>2. t \in Thread
    BY <2>1, InToSet DEF WaitTypeOK
  <2>3. /\ sched.stat[t] = "suspend" /\ pc[t] # "run" /\ err[t] = "intr"
        /\ \A p \in Queue : t \in ToSet(waitq[p]) => p = q
    BY <2>1 DEF WaitInv, ListsAgree
  <2>4. QED BY <2>1, <2>2, <2>3 DEF SleepersStay
<1>3. ASSUME NEW t \in Thread, sched'.stat[t] = "suspend", pc'[t] # "run"
      PROVE  \E q \in Queue : t \in ToSet(waitq'[q])
  <2>1. sched.stat[t] = "suspend" /\ pc[t] # "run" /\ t \notin W
    BY <1>3 DEF SleepersStay
  <2>2. PICK q \in Queue : t \in ToSet(waitq[q])
    BY <2>1 DEF WaitInv, ListsAgree
  <2>3. QED BY <2>1, <2>2
<1>4. ListsAgree'
  BY <1>2, <1>3 DEF ListsAgree
<1>5. TimersAgree'
  BY DEF WaitInv, TimersAgree
<1>6. QED BY <1>1, <1>4, <1>5 DEF WaitInv

\* The threads of ts, and no others, leave their lists and can run again.
LEMMA WakeWait ==
  ASSUME NEW L, WaitTypeOK(L), WaitInv,
         NEW ts \in Seq(Thread), IsInjective(ts),
         \A t \in ToSet(ts) : sched.stat[t] = "suspend",
         NEW e \in Err, Ready(ts, e),
         sched' = Readied(ts) \/ sched' = Schedule(Readied(ts)),
         SleepersStay(L)
  PROVE  /\ WaitTypeOK(L)' /\ WaitInv'
         /\ \A q \in Queue : ToSet(waitq'[q]) = ToSet(waitq[q]) \ ToSet(ts)
         /\ \A t \in Thread : sched'.stat[t] = "suspend"
                                <=> sched.stat[t] = "suspend" /\ t \notin ToSet(ts)
         /\ \A t \in Thread : err'[t] = IF t \in ToSet(ts) THEN e ELSE err[t]
<1> DEFINE r == Readied(ts)
<1>1. sched \in SchedState /\ SchedInv(sched)
  BY DEF WaitTypeOK, WaitInv
<1>2. /\ r \in SchedState /\ SchedInv(r)
      /\ \A t \in ToSet(ts) : r.stat[t] \in {"ready", "running"}
      /\ \A t \in Thread \ ToSet(ts) : r.stat[t] = sched.stat[t]
  BY <1>1, InsertAllInv DEF Readied
<1> HIDE DEF r
<1>3. sched' = r \/ sched' = Schedule(r)
  BY DEF r
<1>4. /\ sched' \in SchedState /\ SchedInv(sched')
      /\ SameSleepers(r, sched')
  BY <1>2, <1>3, ScheduleQueues DEF SameSleepers
<1>5. \A t \in Thread : sched'.stat[t] = "suspend"
                          <=> sched.stat[t] = "suspend" /\ t \notin ToSet(ts)
  BY <1>2, <1>4 DEF SameSleepers
<1>6. ASSUME NEW q \in Queue
      PROVE  /\ waitq'[q] \in Seq(Thread)
             /\ ToSet(waitq'[q]) = ToSet(waitq[q]) \ ToSet(ts)
             /\ IsInjective(waitq'[q])
  <2>1. waitq[q] \in Seq(Thread) /\ IsInjective(waitq[q])
    BY DEF WaitTypeOK, WaitInv, ListsAgree
  <2>2. waitq'[q] = Without(waitq[q], ToSet(ts))
    BY DEF Ready
  <2>3. QED BY <2>1, <2>2, WithoutSeq
<1>7. waitq' \in [Queue -> Seq(Thread)]
  BY <1>6 DEF Ready
<1>8. /\ err' \in [Thread -> Err] /\ timer' \in [Thread -> BOOLEAN]
      /\ ttmr' \in [Thread -> BOOLEAN]
  BY DEF Ready, WaitTypeOK
<1>9. \A t \in Thread :
        /\ err'[t] = IF t \in ToSet(ts) THEN e ELSE err[t]
        /\ timer'[t] = (timer[t] /\ t \notin ToSet(ts))
        /\ ttmr'[t] = (ttmr[t] /\ t \notin ToSet(ts))
  BY DEF Ready
<1>10. ToSet(ts) \in SUBSET Thread
  BY InToSet
<1>11. /\ \A t \in ToSet(ts) : ~timer'[t]
       /\ \A t \in Thread \ ToSet(ts) :
            err'[t] = err[t] /\ timer'[t] = timer[t] /\ ttmr'[t] = ttmr[t]
  BY <1>9, <1>10 DEF WaitTypeOK
<1>12. WaitTypeOK(L)' /\ WaitInv'
  BY <1>4, <1>5, <1>6, <1>7, <1>8, <1>10, <1>11, LeaveWait
<1>13. QED BY <1>5, <1>6, <1>9, <1>12

\* Whom rt_susp_list_dequeue takes off a wait list, if anybody waits there
Woken(q) == IF waitq[q] = <<>> THEN {} ELSE {Head(waitq[q])}

\* rt_susp_list_dequeue and rt_schedule: the first waiter, if there is one, is
\* woken and nobody else.
LEMMA WakeOneWait ==
  ASSUME NEW L, WaitTypeOK(L), WaitInv, NEW q \in Queue, NEW e \in Err,
         WakeOne(q, e), SleepersStay(L)
  PROVE  /\ WaitTypeOK(L)' /\ WaitInv'
         /\ Woken(q) \subseteq ToSet(waitq[q])
         /\ \A p \in Queue : ToSet(waitq'[p]) = ToSet(waitq[p]) \ Woken(q)
         /\ \A t \in Thread : sched'.stat[t] = "suspend"
                                <=> sched.stat[t] = "suspend" /\ t \notin Woken(q)
         /\ \A t \in Thread : err'[t] = IF t \in Woken(q) THEN e ELSE err[t]
<1>1. CASE waitq[q] = <<>>
  <2>1. UNCHANGED <<sched, waitq, err, timer, ttmr>>
    BY <1>1 DEF WakeOne
  <2>2. sched' \in SchedState /\ SchedInv(sched') /\ SameSleepers(sched, sched')
    BY <2>1 DEF WaitTypeOK, WaitInv, SameSleepers
  <2>3. WaitTypeOK(L)' /\ WaitInv'
    BY <2>1, <2>2, GoOnWait DEF SleepersStay, WaitTypeOK
  <2>4. Woken(q) = {}
    BY <1>1 DEF Woken
  <2>5. QED BY <2>1, <2>3, <2>4
<1>2. CASE waitq[q] # <<>>
  <2> DEFINE h == Head(waitq[q])
  <2>1. waitq[q] \in Seq(Thread)
    BY DEF WaitTypeOK
  <2>2. h \in Thread /\ h = waitq[q][1] /\ Len(waitq[q]) \in Nat \ {0}
    BY <1>2, <2>1, HeadTailProperties, EmptySeq
  <2>3. h \in ToSet(waitq[q])
    BY <2>1, <2>2, InToSet
  <2>4. sched.stat[h] = "suspend"
    BY <2>3 DEF WaitInv, ListsAgree
  <2>5. FirstOf(q) = <<h>>
    BY <1>2, AllOfIs
  <2> HIDE DEF h
  <2>6. <<h>> \in Seq(Thread) /\ IsInjective(<<h>>) /\ ToSet(<<h>>) = {h}
    BY <2>2, SingleSeq
  <2>7. sched' = Schedule(Readied(<<h>>)) /\ Ready(<<h>>, e)
    BY <1>2, <2>5 DEF WakeOne, WakeAs
  <2>8. /\ WaitTypeOK(L)' /\ WaitInv'
        /\ \A p \in Queue : ToSet(waitq'[p]) = ToSet(waitq[p]) \ {h}
        /\ \A t \in Thread : sched'.stat[t] = "suspend"
                               <=> sched.stat[t] = "suspend" /\ t \notin {h}
        /\ \A t \in Thread : err'[t] = IF t \in {h} THEN e ELSE err[t]
    BY <2>4, <2>6, <2>7, WakeWait
  <2>9. Woken(q) = {h}
    BY <1>2 DEF Woken, h
  <2>10. QED BY <2>3, <2>8, <2>9
<1>3. QED BY <1>1, <1>2

\* rt_susp_list_resume_all on a wait list, with or without rt_schedule: all
\* waiters of that list are woken and nobody else.
LEMMA WakeAllWait ==
  ASSUME NEW L, WaitTypeOK(L), WaitInv, NEW q \in Queue, NEW e \in Err,
         Ready(AllOf(q), e),
         \/ sched' = Readied(AllOf(q))
         \/ sched' = Schedule(Readied(AllOf(q))),
         UNCHANGED pc
  PROVE  /\ WaitTypeOK(L)' /\ WaitInv'
         /\ \A p \in Queue : ToSet(waitq'[p]) = ToSet(waitq[p]) \ ToSet(waitq[q])
         /\ \A t \in Thread : sched'.stat[t] = "suspend"
              <=> sched.stat[t] = "suspend" /\ t \notin ToSet(waitq[q])
         /\ \A t \in Thread : err'[t] = IF t \in ToSet(waitq[q]) THEN e ELSE err[t]
<1>1. AllOf(q) = waitq[q]
  BY AllOfIs
<1>2. waitq[q] \in Seq(Thread) /\ IsInjective(waitq[q])
  BY DEF WaitTypeOK, WaitInv, ListsAgree
<1>3. \A t \in ToSet(waitq[q]) : sched.stat[t] = "suspend"
  BY DEF WaitInv, ListsAgree
<1>4. SleepersStay(L)
  BY SamePc
<1>5. QED BY <1>1, <1>2, <1>3, <1>4, WakeWait

-----------------------------------------------------------------------------
(* Waiting and going on                                                    *)

\* rt_susp_list_enqueue adds the thread to the list and nothing else.
LEMMA EnqueueWait ==
  ASSUME NEW L, WaitTypeOK(L), WaitInv, NEW q \in Queue, NEW t \in Thread,
         t \notin ToSet(waitq[q])
  PROVE  /\ Enqueue(q, t) \in Seq(Thread)
         /\ IsInjective(Enqueue(q, t))
         /\ ToSet(Enqueue(q, t)) = ToSet(waitq[q]) \cup {t}
<1>1. waitq[q] \in Seq(Thread) /\ IsInjective(waitq[q])
  BY DEF WaitTypeOK, WaitInv, ListsAgree
<1>2. CASE FlagPrio
  BY <1>1, <1>2, EnqueuePrioSeq DEF Enqueue
<1>3. CASE ~FlagPrio
  BY <1>1, <1>3, AppendSeq DEF Enqueue
<1>4. QED BY <1>2, <1>3

\* The running thread suspends itself into a wait list.
LEMMA BlockWait ==
  ASSUME NEW L, WaitTypeOK(L), WaitInv,
         NEW t \in Thread, NEW q \in Queue, NEW timed \in BOOLEAN, NEW l \in L, l # "run",
         t = sched.cur, sched.stat[t] = "running",
         Block(t, q, timed, l)
  PROVE  /\ WaitTypeOK(L)' /\ WaitInv'
         /\ ToSet(waitq'[q]) = ToSet(waitq[q]) \cup {t}
         /\ \A p \in Queue \ {q} : waitq'[p] = waitq[p]
         /\ \A p \in Queue : t \notin ToSet(waitq[p])
         /\ \A x \in Thread : sched'.stat[x] = IF x = t THEN "suspend" ELSE sched.stat[x]
         /\ \A x \in Thread : /\ err'[x] = IF x = t THEN "intr" ELSE err[x]
                             /\ pc'[x] = IF x = t THEN l ELSE pc[x]
<1>1. sched \in SchedState /\ QueuesAgree(sched)
  BY DEF WaitTypeOK, WaitInv, SchedInv
<1>2. /\ sched' \in SchedState /\ sched'.cur = sched.cur
      /\ sched'.stat = [sched.stat EXCEPT ![t] = "suspend"]
      /\ QueuesAgree(sched')
  BY <1>1, SuspendState, SuspendQueues DEF Block
<1>3. \A x \in Thread : sched'.stat[x] = IF x = t THEN "suspend" ELSE sched.stat[x]
  BY <1>1, <1>2 DEF SchedState
<1>4. SchedInv(sched')
  BY <1>2, <1>3 DEF WaitInv, SchedInv, OneRunning
<1>5. \A p \in Queue : t \notin ToSet(waitq[p])
  BY DEF WaitInv, ListsAgree
<1>6. /\ Enqueue(q, t) \in Seq(Thread)
      /\ IsInjective(Enqueue(q, t))
      /\ ToSet(Enqueue(q, t)) = ToSet(waitq[q]) \cup {t}
  BY <1>5, EnqueueWait
<1>7. /\ waitq' \in [Queue -> Seq(Thread)]
      /\ waitq'[q] = Enqueue(q, t)
      /\ \A p \in Queue \ {q} : waitq'[p] = waitq[p]
  BY <1>6 DEF Block, WaitTypeOK
<1>8. /\ err' \in [Thread -> Err] /\ timer' \in [Thread -> BOOLEAN]
      /\ ttmr' \in [Thread -> BOOLEAN] /\ pc' \in [Thread -> L]
  BY DEF Block, WaitTypeOK, Err
<1>9. \A x \in Thread : /\ err'[x] = IF x = t THEN "intr" ELSE err[x]
                        /\ timer'[x] = IF x = t THEN timed ELSE timer[x]
                        /\ ttmr'[x] = IF x = t THEN timed ELSE ttmr[x]
                        /\ pc'[x] = IF x = t THEN l ELSE pc[x]
  BY DEF Block, WaitTypeOK
<1>10. WaitTypeOK(L)'
  BY <1>2, <1>7, <1>8 DEF WaitTypeOK
<1>11. ListsAgree'
  <2>1. ASSUME NEW p \in Queue
        PROVE  IsInjective(waitq'[p])
    BY <1>6, <1>7 DEF WaitInv, ListsAgree
  <2>2. ASSUME NEW p \in Queue, NEW x
        PROVE  x \in ToSet(waitq'[p]) <=> x \in ToSet(waitq[p]) \/ (p = q /\ x = t)
    BY <1>6, <1>7
  <2>3. ASSUME NEW p \in Queue, NEW x \in ToSet(waitq'[p])
        PROVE  /\ sched'.stat[x] = "suspend" /\ pc'[x] # "run" /\ err'[x] = "intr"
               /\ \A p2 \in Queue : x \in ToSet(waitq'[p2]) => p2 = p
    <3>1. CASE x = t
      BY <1>3, <1>5, <1>9, <2>2, <3>1
    <3>2. CASE x # t
      <4>1. x \in ToSet(waitq[p])
        BY <2>2, <2>3, <3>2
      <4>2. x \in Thread
        <5>1. waitq[p] \in Seq(Thread)
          BY DEF WaitTypeOK
        <5>2. QED BY <4>1, <5>1, InToSet
      <4>3. /\ sched.stat[x] = "suspend" /\ pc[x] # "run" /\ err[x] = "intr"
            /\ \A p2 \in Queue : x \in ToSet(waitq[p2]) => p2 = p
        BY <4>1 DEF WaitInv, ListsAgree
      <4>4. QED BY <1>3, <1>9, <2>2, <3>2, <4>2, <4>3
    <3>3. QED BY <3>1, <3>2
  <2>4. ASSUME NEW x \in Thread, sched'.stat[x] = "suspend", pc'[x] # "run"
        PROVE  \E p \in Queue : x \in ToSet(waitq'[p])
    <3>1. CASE x = t
      BY <2>2, <3>1
    <3>2. CASE x # t
      <4>1. sched.stat[x] = "suspend" /\ pc[x] # "run"
        BY <1>3, <1>9, <2>4, <3>2
      <4>2. PICK p \in Queue : x \in ToSet(waitq[p])
        BY <4>1 DEF WaitInv, ListsAgree
      <4>3. QED BY <2>2, <4>2
    <3>3. QED BY <3>1, <3>2
  <2>5. QED BY <2>1, <2>3, <2>4 DEF ListsAgree
<1>12. TimersAgree'
  BY <1>3, <1>9 DEF WaitInv, TimersAgree
<1>13. QED BY <1>3, <1>4, <1>5, <1>6, <1>7, <1>9, <1>10, <1>11, <1>12 DEF WaitInv

\* rt_schedule after the wait list is unlocked
LEMMA SwitchWait ==
  ASSUME NEW L, WaitTypeOK(L), WaitInv, NEW t \in Thread,
         NEW from \in L, NEW to \in L, from # "run", to # "run",
         Switch(t, from, to)
  PROVE  /\ WaitTypeOK(L)' /\ WaitInv'
         /\ SameSleepers(sched, sched')
         /\ UNCHANGED <<waitq, err>>
         /\ pc[t] = from
         /\ \A x \in Thread : pc'[x] = IF x = t THEN to ELSE pc[x]
<1>1. sched \in SchedState /\ SchedInv(sched)
  BY DEF WaitTypeOK, WaitInv
<1>2. /\ sched' \in SchedState /\ SchedInv(sched')
      /\ SameSleepers(sched, sched')
  BY <1>1, ScheduleQueues DEF Switch
<1>3. /\ pc' \in [Thread -> L] /\ pc[t] = from
      /\ \A x \in Thread : pc'[x] = IF x = t THEN to ELSE pc[x]
  BY DEF Switch, BeforeSwitch, WaitTypeOK
<1>4. UNCHANGED <<waitq, err, timer, ttmr>>
  BY DEF Switch
<1>5. err' \in [Thread -> Err]
  BY <1>4 DEF WaitTypeOK
<1>6. \A x \in Thread : err'[x] = err[x] /\ (pc'[x] = "run" <=> pc[x] = "run")
  BY <1>3, <1>4
<1>7. WaitTypeOK(L)' /\ WaitInv'
  BY <1>2, <1>3, <1>4, <1>5, <1>6, GoOnWait
<1>8. QED BY <1>2, <1>3, <1>4, <1>7

-----------------------------------------------------------------------------
(* Interrupts and other thread operations                                  *)

\* A timeout takes its thread off the list it waits on, and only that thread.
LEMMA TimerExpiresWait ==
  ASSUME NEW L, WaitTypeOK(L), WaitInv, NEW x \in Thread, TimerExpires(x)
  PROVE  /\ WaitTypeOK(L)' /\ WaitInv'
         /\ sched.stat[x] = "suspend"
         /\ \A q \in Queue : ToSet(waitq'[q]) = ToSet(waitq[q]) \ {x}
         /\ \A t \in Thread : sched'.stat[t] = "suspend"
                                <=> sched.stat[t] = "suspend" /\ t # x
         /\ \A t \in Thread :
              err'[t] = IF t = x /\ pc[x] # "run" THEN "timeout" ELSE err[t]
         /\ UNCHANGED pc
<1>1. sched \in SchedState /\ SchedInv(sched)
  BY DEF WaitTypeOK, WaitInv
<1>2. sched.stat[x] = "suspend"
  BY DEF TimerExpires, WaitInv, TimersAgree
<1> DEFINE r == Insert(sched, x)
<1>3. /\ r \in SchedState /\ SchedInv(r)
      /\ r.stat = [sched.stat EXCEPT ![x] = IF x = sched.cur THEN "running" ELSE "ready"]
  BY <1>1, <1>2, InsertInv
<1>4. \A t \in Thread : r.stat[t] = "suspend" <=> sched.stat[t] = "suspend" /\ t # x
  <2>1. sched.stat \in [Thread -> Stat]
    BY <1>1 DEF SchedState
  <2>2. r.stat[x] \in {"running", "ready"}
    BY <1>3, <2>1
  <2>3. \A t \in Thread \ {x} : r.stat[t] = sched.stat[t]
    BY <1>3, <2>1
  <2>4. QED BY <2>2, <2>3
<1>5. sched' = Schedule(r)
  BY DEF TimerExpires
<1> HIDE DEF r
<1>6. /\ sched' \in SchedState /\ SchedInv(sched') /\ SameSleepers(r, sched')
  BY <1>3, <1>5, ScheduleQueues
<1>7. \A t \in Thread : sched'.stat[t] = "suspend"
                          <=> sched.stat[t] = "suspend" /\ t \notin {x}
  BY <1>4, <1>6 DEF SameSleepers
<1>8. ASSUME NEW q \in Queue
      PROVE  /\ waitq'[q] \in Seq(Thread)
             /\ ToSet(waitq'[q]) = ToSet(waitq[q]) \ {x}
             /\ IsInjective(waitq'[q])
  <2>1. waitq[q] \in Seq(Thread) /\ IsInjective(waitq[q])
    BY DEF WaitTypeOK, WaitInv, ListsAgree
  <2>2. waitq'[q] = Unlink(waitq[q], x)
    BY DEF TimerExpires
  <2>3. QED BY <2>1, <2>2, UnlinkSeq
<1>9. waitq' \in [Queue -> Seq(Thread)]
  BY <1>8 DEF TimerExpires
<1>10. /\ err' \in [Thread -> Err] /\ timer' \in [Thread -> BOOLEAN]
       /\ ttmr' \in [Thread -> BOOLEAN] /\ UNCHANGED <<ttmr, pc>>
  BY DEF TimerExpires, WaitTypeOK, Err
<1>11. /\ ~timer'[x]
       /\ \A t \in Thread \ {x} : err'[t] = err[t] /\ timer'[t] = timer[t]
       /\ \A t \in Thread :
            err'[t] = IF t = x /\ pc[x] # "run" THEN "timeout" ELSE err[t]
  BY DEF TimerExpires, WaitTypeOK
<1>12. SleepersStay(L)
  BY <1>10, SamePc
<1>13. WaitTypeOK(L)' /\ WaitInv'
  BY <1>6, <1>7, <1>8, <1>9, <1>10, <1>11, <1>12, LeaveWait
<1>14. QED BY <1>2, <1>7, <1>8, <1>10, <1>11, <1>13

\* rt_thread_mdelay suspends the running thread, which is in no call that waits.
LEMMA SleepWait ==
  ASSUME NEW L, WaitTypeOK(L), WaitInv, NEW t \in Thread, Sleep(t)
  PROVE  /\ WaitTypeOK(L)' /\ WaitInv'
         /\ \A x \in Thread : pc[x] # "run" =>
              (sched'.stat[x] = "suspend" <=> sched.stat[x] = "suspend")
         /\ UNCHANGED <<waitq, err, pc>>
<1>1. sched \in SchedState /\ QueuesAgree(sched)
  BY DEF WaitTypeOK, WaitInv, SchedInv
<1>2. t = sched.cur /\ sched.stat[t] = "running" /\ pc[t] = "run"
  BY DEF Sleep, At, cur
<1> DEFINE r == Suspend(sched, t)
<1>3. /\ r \in SchedState /\ r.cur = sched.cur
      /\ r.stat = [sched.stat EXCEPT ![t] = "suspend"]
      /\ QueuesAgree(r)
  BY <1>1, SuspendState, SuspendQueues
<1>4. \A x \in Thread : r.stat[x] = IF x = t THEN "suspend" ELSE sched.stat[x]
  BY <1>1, <1>3 DEF SchedState
<1>5. SchedInv(r)
  BY <1>2, <1>3, <1>4 DEF WaitInv, SchedInv, OneRunning
<1>6. sched' = Schedule(r)
  BY DEF Sleep
<1> HIDE DEF r
<1>7. /\ sched' \in SchedState /\ SchedInv(sched') /\ SameSleepers(r, sched')
  BY <1>3, <1>5, <1>6, ScheduleQueues
<1>8. \A x \in Thread : sched'.stat[x] = "suspend" <=> sched.stat[x] = "suspend" \/ x = t
  BY <1>4, <1>7 DEF SameSleepers
<1>9. /\ UNCHANGED <<waitq, err, pc>>
      /\ timer' \in [Thread -> BOOLEAN] /\ ttmr' \in [Thread -> BOOLEAN]
      /\ \A x \in Thread : /\ timer'[x] = IF x = t THEN TRUE ELSE timer[x]
                           /\ ttmr'[x] = IF x = t THEN TRUE ELSE ttmr[x]
  BY DEF Sleep, WaitTypeOK
<1>10. WaitTypeOK(L)'
  BY <1>7, <1>9 DEF WaitTypeOK
<1>11. ASSUME NEW q \in Queue, NEW x \in ToSet(waitq'[q])
       PROVE  /\ sched'.stat[x] = "suspend" /\ pc'[x] # "run" /\ err'[x] = "intr"
              /\ \A p \in Queue : x \in ToSet(waitq'[p]) => p = q
  <2>1. x \in Thread /\ x \in ToSet(waitq[q])
    BY <1>9, <1>11, InToSet DEF WaitTypeOK
  <2>2. QED BY <1>8, <1>9, <2>1 DEF WaitInv, ListsAgree
<1>12. ASSUME NEW x \in Thread, sched'.stat[x] = "suspend", pc'[x] # "run"
       PROVE  \E q \in Queue : x \in ToSet(waitq'[q])
  <2>1. sched.stat[x] = "suspend" /\ pc[x] # "run"
    BY <1>2, <1>8, <1>9, <1>12
  <2>2. QED BY <1>9, <2>1 DEF WaitInv, ListsAgree
<1>13. \A q \in Queue : IsInjective(waitq'[q])
  BY <1>9 DEF WaitInv, ListsAgree
<1>14. ListsAgree'
  BY <1>11, <1>12, <1>13 DEF ListsAgree
<1>15. TimersAgree'
  BY <1>8, <1>9 DEF WaitInv, TimersAgree
<1>16. QED BY <1>2, <1>7, <1>8, <1>9, <1>10, <1>14, <1>15 DEF WaitInv

\* What leaves the object alone ends at most one wait, and not with RT_EOK:
\* a thread that finds RT_EOK in its error was woken by the object.
LEMMA ElsewhereWait ==
  ASSUME NEW L, WaitTypeOK(L), WaitInv, Elsewhere
  PROVE  /\ WaitTypeOK(L)' /\ WaitInv' /\ UNCHANGED pc
         /\ \E W \in SUBSET Thread :
              /\ \A x, y \in W : x = y
              /\ \A x \in W : sched.stat[x] = "suspend" /\ pc[x] # "run" /\ err'[x] # "ok"
              /\ \A q \in Queue : ToSet(waitq'[q]) = ToSet(waitq[q]) \ W
              /\ \A x \in Thread : pc[x] # "run" =>
                   (sched'.stat[x] = "suspend" <=> sched.stat[x] = "suspend" /\ x \notin W)
              /\ \A x \in Thread \ W : err'[x] = err[x]
<1> DEFINE Goal(W) ==
      /\ \A x, y \in W : x = y
      /\ \A x \in W : sched.stat[x] = "suspend" /\ pc[x] # "run" /\ err'[x] # "ok"
      /\ \A q \in Queue : ToSet(waitq'[q]) = ToSet(waitq[q]) \ W
      /\ \A x \in Thread : pc[x] # "run" =>
           (sched'.stat[x] = "suspend" <=> sched.stat[x] = "suspend" /\ x \notin W)
      /\ \A x \in Thread \ W : err'[x] = err[x]
<1>1. ASSUME NEW q \in Queue, NEW x \in ToSet(waitq[q])
      PROVE  pc[x] # "run" /\ err[x] = "intr"
  BY <1>1 DEF WaitInv, ListsAgree
<1>2. ASSUME NEW x \in Thread, sched.stat[x] = "suspend", pc[x] # "run"
      PROVE  err[x] = "intr"
  <2>1. PICK q \in Queue : x \in ToSet(waitq[q])
    BY <1>2 DEF WaitInv, ListsAgree
  <2>2. QED BY <1>1, <2>1
<1>3. CASE \E x \in Thread : TimerExpires(x)
  <2>1. PICK x \in Thread : TimerExpires(x)
    BY <1>3
  <2>2. /\ WaitTypeOK(L)' /\ WaitInv' /\ UNCHANGED pc
        /\ sched.stat[x] = "suspend"
        /\ \A q \in Queue : ToSet(waitq'[q]) = ToSet(waitq[q]) \ {x}
        /\ \A t \in Thread : sched'.stat[t] = "suspend"
                               <=> sched.stat[t] = "suspend" /\ t # x
        /\ \A t \in Thread :
             err'[t] = IF t = x /\ pc[x] # "run" THEN "timeout" ELSE err[t]
    BY <2>1, TimerExpiresWait
  <2>3. CASE pc[x] # "run"
    <3>1. Goal({x})
      BY <2>2, <2>3
    <3>2. QED BY <2>2, <3>1
  <2>4. CASE pc[x] = "run"
    <3>1. \A q \in Queue : x \notin ToSet(waitq[q])
      BY <1>1, <2>4
    <3>2. /\ \A q \in Queue : ToSet(waitq'[q]) = ToSet(waitq[q]) \ {}
          /\ \A t \in Thread : err'[t] = err[t]
      BY <2>2, <2>4, <3>1
    <3>3. \A t \in Thread : pc[t] # "run" =>
            (sched'.stat[t] = "suspend" <=> sched.stat[t] = "suspend")
      BY <2>2, <2>4
    <3>4. Goal({})
      BY <3>2, <3>3
    <3>5. \E W \in SUBSET Thread : Goal(W)
      <4> WITNESS {} \in SUBSET Thread
      <4> QED BY <3>4
    <3>6. QED BY <2>2, <3>5
  <2>5. QED BY <2>3, <2>4
<1>4. CASE \E t \in Thread : Sleep(t)
  <2>1. PICK t \in Thread : Sleep(t)
    BY <1>4
  <2>2. /\ WaitTypeOK(L)' /\ WaitInv'
        /\ \A x \in Thread : pc[x] # "run" =>
             (sched'.stat[x] = "suspend" <=> sched.stat[x] = "suspend")
        /\ UNCHANGED <<waitq, err, pc>>
    BY <2>1, SleepWait
  <2>3. waitq' = waitq /\ err' = err /\ UNCHANGED pc
    BY <2>2
  <2>4. Goal({})
    BY <2>2, <2>3
  <2>5. \E W \in SUBSET Thread : Goal(W)
    <3> WITNESS {} \in SUBSET Thread
    <3> QED BY <2>4
  <2>6. QED BY <2>2, <2>3, <2>5
<1>5. CASE \E t, x \in Thread : Resume(t, x)
  <2>1. PICK t, x \in Thread : Resume(t, x)
    BY <1>5
  <2>2. /\ sched.stat[x] = "suspend" /\ UNCHANGED pc
        /\ sched' = Schedule(Readied(<<x>>)) /\ Ready(<<x>>, err[x])
    BY <2>1 DEF Resume, WakeAs
  <2>3. err[x] \in Err
    BY DEF WaitTypeOK
  <2>4. <<x>> \in Seq(Thread) /\ IsInjective(<<x>>) /\ ToSet(<<x>>) = {x}
    BY SingleSeq
  <2>5. /\ WaitTypeOK(L)' /\ WaitInv'
        /\ \A q \in Queue : ToSet(waitq'[q]) = ToSet(waitq[q]) \ {x}
        /\ \A y \in Thread : sched'.stat[y] = "suspend"
                               <=> sched.stat[y] = "suspend" /\ y # x
        /\ \A y \in Thread : err'[y] = err[y]
    BY <2>2, <2>3, <2>4, SamePc, WakeWait
  <2>6. CASE pc[x] # "run"
    <3>1. err'[x] # "ok"
      BY <1>2, <2>2, <2>5, <2>6
    <3>2. Goal({x})
      BY <2>2, <2>5, <2>6, <3>1
    <3>3. QED BY <2>2, <2>5, <3>2
  <2>7. CASE pc[x] = "run"
    <3>1. \A q \in Queue : x \notin ToSet(waitq[q])
      BY <1>1, <2>7
    <3>2. Goal({})
      BY <2>5, <2>7, <3>1
    <3>3. \E W \in SUBSET Thread : Goal(W)
      <4> WITNESS {} \in SUBSET Thread
      <4> QED BY <3>2
    <3>4. QED BY <2>2, <2>5, <3>3
  <2>8. QED BY <2>6, <2>7
<1>6. CASE SliceEnds
  <2> DEFINE r == [sched EXCEPT !.yield[sched.cur] = TRUE]
  <2>1. sched \in SchedState /\ SchedInv(sched) /\ sched.cur \in Thread
    BY DEF WaitTypeOK, WaitInv, SchedState
  <2>2. r \in SchedState /\ SchedInv(r) /\ r.stat = sched.stat
    BY <2>1, YieldQueues
  <2>3. sched' = Schedule(r) /\ UNCHANGED <<waitq, err, timer, ttmr, pc>>
    BY <1>6 DEF SliceEnds, cur
  <2> HIDE DEF r
  <2>4. sched' \in SchedState /\ SchedInv(sched') /\ SameSleepers(sched, sched')
    BY <2>2, <2>3, ScheduleQueues DEF SameSleepers
  <2>5. pc' \in [Thread -> L] /\ err' \in [Thread -> Err]
    BY <2>3 DEF WaitTypeOK
  <2>6. WaitTypeOK(L)' /\ WaitInv'
    BY <2>3, <2>4, <2>5, GoOnWait
  <2>7. waitq' = waitq /\ err' = err /\ UNCHANGED pc
    BY <2>3
  <2>8. Goal({})
    BY <2>4, <2>7 DEF SameSleepers
  <2>9. \E W \in SUBSET Thread : Goal(W)
    <3> WITNESS {} \in SUBSET Thread
    <3> QED BY <2>8
  <2>10. QED BY <2>6, <2>7, <2>9
<1>7. QED BY <1>3, <1>4, <1>5, <1>6 DEF Elsewhere

\* At the start every thread sleeps and nobody waits.
LEMMA InitWait ==
  ASSUME NEW L, "run" \in L, WaitInit
  PROVE  /\ WaitTypeOK(L) /\ WaitInv
         /\ \A q \in Queue : waitq[q] = <<>>
<1>1. /\ sched = AllAsleep /\ sched \in SchedState /\ SchedInv(sched)
      /\ \A t \in Thread : sched.stat[t] = IF t = Idle THEN "running" ELSE "suspend"
  BY StartQueues DEF WaitInit, AllAsleep
<1>2. <<>> \in Seq(Thread) /\ ToSet(<<>>) = {} /\ IsInjective(<<>>)
  <2>1. <<>> \in Seq(Thread) /\ Len(<<>>) = 0
    OBVIOUS
  <2>2. \A j, k \in 1 .. Len(<<>>) : <<>>[j] = <<>>[k] => j = k
    BY <2>1
  <2>3. QED BY <2>1, <2>2, EmptyToSet, InjectiveSeq
<1>3. WaitTypeOK(L)
  BY <1>1, <1>2 DEF WaitInit, WaitTypeOK, Err
<1>4. ListsAgree
  BY <1>1, <1>2 DEF WaitInit, ListsAgree
<1>5. TimersAgree
  BY <1>1 DEF WaitInit, TimersAgree
<1>6. QED BY <1>1, <1>3, <1>4, <1>5 DEF WaitInv, WaitInit

-----------------------------------------------------------------------------
(* Two wait lists: of those who wait for something in the object ("recv")   *)
(* and of those who wait for room in it ("send").  The two are mirror       *)
(* images of each other.  The functions n and m below say how much there is *)
(* of each, for list q in n[q], before a step and after it.                 *)

\* Where a thread stands that waits, or has waited, on list q
In(q) == IF q = "recv" THEN {"recvSwitch", "recvWait"} ELSE {"sendSwitch", "sendWait"}

TwoLists(L) ==
  /\ Queue = {"recv", "send"}
  /\ {"run", "sendSwitch", "sendWait", "recvSwitch", "recvWait"} \subseteq L

\* Those woken with RT_EOK that have not looked at the object yet
Bound(q) ==
  {t \in Thread : pc[t] \in In(q) /\ sched.stat[t] # "suspend" /\ err[t] = "ok"}

ListsFit == \A q \in Queue : \A t \in ToSet(waitq[q]) : pc[t] \in In(q)

\* The part of an inductive invariant that is about the waits: whoever sleeps
\* sleeps because others are under way to all there is.
WaitsFor(L, n) ==
  /\ WaitTypeOK(L)
  /\ WaitInv
  /\ ListsFit
  /\ \A q \in Queue : waitq[q] # <<>> => n[q] <= Cardinality(Bound(q))

\* The threads on the two lists and those under way
LEMMA Sides ==
  ASSUME NEW L, TwoLists(L), NEW n \in [Queue -> Nat], WaitsFor(L, n), NEW q \in Queue
  PROVE  /\ n[q] \in Nat
         /\ IsFiniteSet(Bound(q)) /\ Cardinality(Bound(q)) \in Nat
         /\ waitq[q] \in Seq(Thread)
         /\ \A t \in ToSet(waitq[q]) :
              /\ t \in Thread /\ sched.stat[t] = "suspend" /\ err[t] = "intr"
              /\ pc[t] \in In(q) /\ t \notin Bound(q)
         /\ \E o \in Queue : /\ o # q /\ \A p \in Queue : p = q \/ p = o
                             /\ In(o) \cap In(q) = {}
         /\ In(q) \subseteq L /\ "run" \notin In(q)
         /\ \A t \in Thread : pc[t] \in In(q) /\ sched.stat[t] # "suspend" /\ err[t] = "ok"
                                <=> t \in Bound(q)
<1>1. n[q] \in Nat
  OBVIOUS
<1>2. IsFiniteSet(Bound(q))
  <2>1. Bound(q) \subseteq Thread
    BY DEF Bound
  <2>2. QED BY <2>1, FiniteThreads, FS_Subset
<1>3. Cardinality(Bound(q)) \in Nat
  BY <1>2, FS_CardinalityType
<1>4. waitq[q] \in Seq(Thread)
  BY DEF WaitsFor, WaitTypeOK
<1>5. ASSUME NEW t \in ToSet(waitq[q])
      PROVE  /\ t \in Thread /\ sched.stat[t] = "suspend" /\ err[t] = "intr"
             /\ pc[t] \in In(q) /\ t \notin Bound(q)
  <2>1. t \in Thread
    BY <1>4, <1>5, InToSet
  <2>2. sched.stat[t] = "suspend" /\ err[t] = "intr"
    BY <1>5 DEF WaitsFor, WaitInv, ListsAgree
  <2>3. pc[t] \in In(q)
    BY <1>5 DEF WaitsFor, ListsFit
  <2>4. QED BY <2>1, <2>2, <2>3 DEF Bound
<1>6. \E o \in Queue : /\ o # q /\ \A p \in Queue : p = q \/ p = o
                       /\ In(o) \cap In(q) = {}
  BY DEF TwoLists, In
<1>7. In(q) \subseteq L /\ "run" \notin In(q)
  BY DEF In, TwoLists
<1>8. \A t \in Thread : pc[t] \in In(q) /\ sched.stat[t] # "suspend" /\ err[t] = "ok"
                          <=> t \in Bound(q)
  BY DEF Bound
<1>9. QED BY <1>1, <1>2, <1>3, <1>4, <1>5, <1>6, <1>7, <1>8

\* When nobody is added to a list, nobody is forgotten, provided that one who is
\* under way and leaves takes something away.
LEMMA NobodyLost ==
  ASSUME NEW L, TwoLists(L), NEW n \in [Queue -> Nat], WaitsFor(L, n),
         NEW m \in [Queue -> Nat], WaitTypeOK(L)', WaitInv',
         \A p \in Queue : ToSet(waitq'[p]) \subseteq ToSet(waitq[p]),
         \A x \in Thread : sched.stat[x] = "suspend" =>
           \A p \in Queue : pc[x] \in In(p) => pc'[x] \in In(p),
         \A p \in Queue :
           \/ m[p] = 0
           \/ m[p] <= n[p] /\ Bound(p) \subseteq Bound(p)'
           \/ m[p] < n[p] /\ \E t \in Bound(p) : Bound(p) \ {t} \subseteq Bound(p)'
  PROVE  WaitsFor(L, m)'
<1>1. ASSUME NEW p \in Queue, NEW x \in ToSet(waitq'[p])
      PROVE  pc'[x] \in In(p)
  <2>1. x \in ToSet(waitq[p])
    BY <1>1
  <2>2. x \in Thread /\ sched.stat[x] = "suspend" /\ pc[x] \in In(p)
    BY <2>1, Sides
  <2>3. QED BY <2>2
<1>2. ListsFit'
  BY <1>1 DEF ListsFit
<1>3. ASSUME NEW p \in Queue, waitq'[p] # <<>>
      PROVE  m[p] <= Cardinality(Bound(p)')
  <2>1. waitq[p] \in Seq(Thread) /\ waitq'[p] \in Seq(Thread)
    BY Sides DEF WaitTypeOK
  <2>2. ToSet(waitq'[p]) # {} /\ ToSet(waitq'[p]) \subseteq ToSet(waitq[p])
    BY <1>3, <2>1, EmptyToSet
  <2>3. waitq[p] # <<>>
    BY <2>1, <2>2, EmptyToSet
  <2>4. n[p] <= Cardinality(Bound(p)) /\ n[p] \in Nat /\ m[p] \in Nat
    BY <2>3 DEF WaitsFor
  <2>5. IsFiniteSet(Bound(p)) /\ Cardinality(Bound(p)) \in Nat
    BY Sides
  <2>6. IsFiniteSet(Bound(p)') /\ Cardinality(Bound(p)') \in Nat
    <3>1. Bound(p)' \subseteq Thread
      BY DEF Bound
    <3>2. QED BY <3>1, FiniteThreads, FS_Subset, FS_CardinalityType
  <2>7. CASE m[p] = 0
    BY <2>6, <2>7
  <2>8. CASE m[p] <= n[p] /\ Bound(p) \subseteq Bound(p)'
    <3>1. Cardinality(Bound(p)) <= Cardinality(Bound(p)')
      BY <2>6, <2>8, FS_Subset
    <3>2. QED BY <2>4, <2>5, <2>6, <2>8, <3>1
  <2>9. CASE m[p] < n[p] /\ \E t \in Bound(p) : Bound(p) \ {t} \subseteq Bound(p)'
    <3>1. PICK t \in Bound(p) : Bound(p) \ {t} \subseteq Bound(p)'
      BY <2>9
    <3>2. Cardinality(Bound(p) \ {t}) = Cardinality(Bound(p)) - 1
      BY <2>5, FS_RemoveElement
    <3>3. Cardinality(Bound(p) \ {t}) <= Cardinality(Bound(p)')
      BY <2>6, <3>1, FS_Subset
    <3>4. QED BY <2>4, <2>5, <2>6, <2>9, <3>2, <3>3
  <2>10. QED BY <2>7, <2>8, <2>9
<1>4. QED BY <1>2, <1>3 DEF WaitsFor

\* Something is put into the object, or taken out of it, and the first who
\* waits for that is woken.  The thread t that does it may have waited for the
\* opposite, of which it then takes one away.
LEMMA WakeSide ==
  ASSUME NEW L, TwoLists(L), NEW n \in [Queue -> Nat], WaitsFor(L, n),
         NEW m \in [Queue -> Nat], NEW q \in Queue, NEW o \in Queue, o # q,
         m[q] <= n[q] + 1, m[o] <= n[o],
         WakeOne(q, "ok"),
         \/ pc' = pc
         \/ \E t \in Thread : /\ sched.stat[t] = "running" /\ pc[t] # "run"
                              /\ pc[t] \notin In(q)
                              /\ pc[t] \in In(o) => m[o] < n[o]
                              /\ pc' = [pc EXCEPT ![t] = "run"]
  PROVE  WaitsFor(L, m)'
<1>1. /\ \A p \in Queue : p = q \/ p = o
      /\ In(o) \cap In(q) = {} /\ "run" \notin In(q) /\ "run" \notin In(o) /\ "run" \in L
  BY DEF TwoLists, In
<1>2. pc \in [Thread -> L]
  BY DEF WaitsFor, WaitTypeOK
<1> DEFINE Gone(S) ==
      /\ \A x \in S : /\ sched.stat[x] = "running" /\ pc[x] \notin In(q) /\ pc'[x] = "run"
                      /\ pc[x] \in In(o) => m[o] < n[o]
      /\ \A x \in Thread \ S : pc'[x] = pc[x]
      /\ \A x, y \in S : x = y
      /\ \A x \in S : pc[x] # "run"
      /\ pc' \in [Thread -> L]
<1>someGone. \E gone \in SUBSET Thread : Gone(gone)
  <2>1. CASE pc' = pc
    <3>1. Gone({})
      BY <1>2, <2>1
    <3>2. {} \in SUBSET Thread
      OBVIOUS
    <3> HIDE DEF Gone
    <3>3. QED BY <3>1, <3>2
  <2>2. CASE pc' # pc
    <3>1. PICK t \in Thread : /\ sched.stat[t] = "running" /\ pc[t] # "run"
                              /\ pc[t] \notin In(q)
                              /\ pc[t] \in In(o) => m[o] < n[o]
                              /\ pc' = [pc EXCEPT ![t] = "run"]
      BY <2>2
    <3>2. /\ pc' \in [Thread -> L]
          /\ \A x \in Thread : pc'[x] = IF x = t THEN "run" ELSE pc[x]
      BY <1>1, <1>2, <3>1
    <3>3. Gone({t})
      BY <3>1, <3>2
    <3>4. {t} \in SUBSET Thread
      OBVIOUS
    <3> HIDE DEF Gone
    <3>5. QED BY <3>3, <3>4
  <2>3. QED BY <2>1, <2>2
<1>3. PICK gone \in SUBSET Thread : Gone(gone)
  <2> HIDE DEF Gone
  <2> QED BY <1>someGone
<1>4. SleepersStay(L)
  <2>1. ASSUME NEW x \in Thread, sched.stat[x] = "suspend"
        PROVE  pc'[x] = pc[x]
    BY <1>3, <2>1
  <2>2. QED BY <1>3, <2>1 DEF SleepersStay
<1> DEFINE W == Woken(q)
<1>5. /\ WaitTypeOK(L)' /\ WaitInv'
      /\ W \subseteq ToSet(waitq[q])
      /\ \A p \in Queue : ToSet(waitq'[p]) = ToSet(waitq[p]) \ W
      /\ \A t \in Thread : sched'.stat[t] = "suspend"
                             <=> sched.stat[t] = "suspend" /\ t \notin W
      /\ \A t \in Thread : err'[t] = IF t \in W THEN "ok" ELSE err[t]
  <2>1. WaitTypeOK(L) /\ WaitInv /\ "ok" \in Err
    BY DEF WaitsFor, Err
  <2>2. QED BY <1>4, <2>1, WakeOneWait
<1>6. \A x \in W : /\ x \in Thread /\ sched.stat[x] = "suspend"
                   /\ pc[x] \in In(q) /\ x \notin Bound(q) /\ pc'[x] = pc[x]
  BY <1>3, <1>5, Sides
<1>7. waitq[q] # <<>> => W = {Head(waitq[q])}
  BY DEF Woken
<1> HIDE DEF W
<1>8. ASSUME NEW x \in Thread
      PROVE  /\ x \in Bound(q)' <=> x \in Bound(q) \/ x \in W
             /\ x \in Bound(o) /\ x \notin gone => x \in Bound(o)'
             /\ x \in Bound(o) /\ x \in gone => m[o] < n[o]
  <2>1. pc'[x] \in In(q) <=> pc[x] \in In(q)
    BY <1>1, <1>3
  <2>2. x \in Bound(q)' <=> x \in Bound(q) \/ x \in W
    BY <1>5, <1>6, <2>1 DEF Bound
  <2>3. x \in Bound(o) /\ x \notin gone => x \in Bound(o)'
    <3>1. x \in Bound(o) => x \notin W
      BY <1>6 DEF Bound
    <3>2. QED BY <1>3, <1>5, <3>1 DEF Bound
  <2>4. x \in Bound(o) /\ x \in gone => m[o] < n[o]
    BY <1>3 DEF Bound
  <2>5. QED BY <2>2, <2>3, <2>4
<1>9. Bound(q)' = Bound(q) \cup W
  <2>1. Bound(q)' \subseteq Thread /\ Bound(q) \subseteq Thread /\ W \subseteq Thread
    BY <1>6 DEF Bound
  <2>2. QED BY <1>8, <2>1
<1>10. \/ m[o] <= n[o] /\ Bound(o) \subseteq Bound(o)'
       \/ m[o] < n[o] /\ \E t \in Bound(o) : Bound(o) \ {t} \subseteq Bound(o)'
  <2>1. Bound(o) \subseteq Thread
    BY DEF Bound
  <2>2. CASE Bound(o) \cap gone = {}
    BY <1>8, <2>1, <2>2
  <2>3. CASE Bound(o) \cap gone # {}
    <3>1. PICK t \in Bound(o) : t \in gone
      BY <2>3
    <3>2. m[o] < n[o]
      BY <1>8, <2>1, <3>1
    <3>3. Bound(o) \ {t} \subseteq Bound(o)'
      BY <1>3, <1>8, <2>1, <3>1
    <3>4. QED BY <3>2, <3>3
  <2>4. QED BY <2>2, <2>3
<1>11. ListsFit'
  <2>1. ASSUME NEW p \in Queue, NEW x \in ToSet(waitq'[p])
        PROVE  pc'[x] \in In(p)
    <3>1. x \in ToSet(waitq[p])
      BY <1>5, <2>1
    <3>2. x \in Thread /\ sched.stat[x] = "suspend" /\ pc[x] \in In(p)
      BY <3>1, Sides
    <3>3. x \notin gone
      BY <1>3, <3>2
    <3>4. QED BY <1>3, <3>2, <3>3
  <2>2. QED BY <2>1 DEF ListsFit
<1>12. ASSUME NEW p \in Queue, waitq'[p] # <<>>
       PROVE  waitq[p] # <<>> /\ n[p] <= Cardinality(Bound(p))
  <2>1. waitq[p] \in Seq(Thread) /\ waitq'[p] \in Seq(Thread)
    BY <1>5, Sides DEF WaitTypeOK
  <2>2. ToSet(waitq'[p]) # {} /\ ToSet(waitq'[p]) \subseteq ToSet(waitq[p])
    BY <1>5, <1>12, <2>1, EmptyToSet
  <2>3. waitq[p] # <<>>
    BY <2>1, <2>2, EmptyToSet
  <2>4. QED BY <2>3 DEF WaitsFor
<1>13. ASSUME waitq'[q] # <<>>
       PROVE  m[q] <= Cardinality(Bound(q)')
  <2>1. PICK h : W = {h}
    BY <1>7, <1>12, <1>13
  <2>2. h \notin Bound(q)
    BY <1>6, <2>1
  <2>3. IsFiniteSet(Bound(q)) /\ n[q] \in Nat /\ m[q] \in Nat /\ Cardinality(Bound(q)) \in Nat
    BY Sides
  <2>4. Cardinality(Bound(q) \cup {h}) = Cardinality(Bound(q)) + 1
    BY <2>2, <2>3, FS_AddElement
  <2>5. QED BY <1>9, <1>12, <1>13, <2>1, <2>3, <2>4
<1>14. ASSUME waitq'[o] # <<>>
       PROVE  m[o] <= Cardinality(Bound(o)')
  <2>1. IsFiniteSet(Bound(o)) /\ n[o] \in Nat /\ m[o] \in Nat /\ Cardinality(Bound(o)) \in Nat
    BY Sides
  <2>2. IsFiniteSet(Bound(o)') /\ Cardinality(Bound(o)') \in Nat
    <3>1. Bound(o)' \subseteq Thread
      BY DEF Bound
    <3>2. QED BY <3>1, FiniteThreads, FS_Subset, FS_CardinalityType
  <2>3. n[o] <= Cardinality(Bound(o))
    BY <1>12, <1>14
  <2>4. CASE m[o] <= n[o] /\ Bound(o) \subseteq Bound(o)'
    <3>1. Cardinality(Bound(o)) <= Cardinality(Bound(o)')
      BY <2>2, <2>4, FS_Subset
    <3>2. QED BY <2>1, <2>2, <2>3, <2>4, <3>1
  <2>5. CASE m[o] < n[o] /\ \E t \in Bound(o) : Bound(o) \ {t} \subseteq Bound(o)'
    <3>1. PICK t \in Bound(o) : Bound(o) \ {t} \subseteq Bound(o)'
      BY <2>5
    <3>2. Cardinality(Bound(o) \ {t}) = Cardinality(Bound(o)) - 1
      BY <2>1, FS_RemoveElement
    <3>3. Cardinality(Bound(o) \ {t}) <= Cardinality(Bound(o)')
      BY <2>2, <3>1, FS_Subset
    <3>4. QED BY <2>1, <2>2, <2>3, <2>5, <3>2, <3>3
  <2>6. QED BY <1>10, <2>4, <2>5
<1>15. \A p \in Queue : waitq'[p] # <<>> => m[p] <= Cardinality(Bound(p)')
  BY <1>1, <1>13, <1>14
<1>16. QED BY <1>5, <1>11, <1>15 DEF WaitsFor

\* A thread that finds nothing left for it waits, also when it was woken for it.
LEMMA BlockSide ==
  ASSUME NEW L, TwoLists(L), NEW n \in [Queue -> Nat], WaitsFor(L, n),
         NEW t \in Thread, NEW q \in Queue, NEW b \in BOOLEAN, NEW l \in In(q),
         At(t, pc[t]), pc[t] = "run" \/ pc[t] \in In(q), n[q] = 0,
         Block(t, q, b, l)
  PROVE  WaitsFor(L, n)'
<1>1. t = sched.cur /\ sched.stat[t] = "running"
  BY DEF At, cur
<1>2. l \in L /\ l # "run"
  BY Sides
<1>3. WaitTypeOK(L) /\ WaitInv
  BY DEF WaitsFor
<1>4. /\ WaitTypeOK(L)' /\ WaitInv'
      /\ ToSet(waitq'[q]) = ToSet(waitq[q]) \cup {t}
      /\ \A p \in Queue \ {q} : waitq'[p] = waitq[p]
      /\ \A x \in Thread : sched'.stat[x] = IF x = t THEN "suspend" ELSE sched.stat[x]
      /\ \A x \in Thread : /\ err'[x] = IF x = t THEN "intr" ELSE err[x]
                           /\ pc'[x] = IF x = t THEN l ELSE pc[x]
  BY <1>1, <1>2, <1>3, BlockWait
<1>5. PICK o \in Queue : /\ o # q /\ \A p \in Queue : p = q \/ p = o
                         /\ In(o) \cap In(q) = {}
  BY Sides
<1>6. "run" \notin In(o) /\ "run" \notin In(q)
  BY Sides
<1>7. Bound(o)' = Bound(o)
  BY <1>4, <1>5, <1>6 DEF Bound
<1>8. ASSUME NEW p \in Queue, NEW x \in ToSet(waitq'[p])
      PROVE  pc'[x] \in In(p)
  <2>1. CASE x = t
    <3>1. \A p2 \in Queue : t \notin ToSet(waitq[p2])
      BY <1>1, Sides
    <3>2. p = q
      BY <1>4, <1>8, <2>1, <3>1
    <3>3. QED BY <1>4, <2>1, <3>2
  <2>2. CASE x # t
    <3>1. x \in ToSet(waitq[p])
      BY <1>4, <1>8, <2>2
    <3>2. x \in Thread /\ pc[x] \in In(p)
      BY <3>1, Sides
    <3>3. QED BY <1>4, <2>2, <3>2
  <2>3. QED BY <2>1, <2>2
<1>9. ListsFit'
  BY <1>8 DEF ListsFit
<1>10. Cardinality(Bound(q)') \in Nat
  <2>1. Bound(q)' \subseteq Thread
    BY DEF Bound
  <2>2. QED BY <2>1, FiniteThreads, FS_Subset, FS_CardinalityType
<1>11. n[q] <= Cardinality(Bound(q)')
  BY <1>10
<1>12. waitq'[o] # <<>> => n[o] <= Cardinality(Bound(o)')
  BY <1>4, <1>5, <1>7 DEF WaitsFor
<1>13. \A p \in Queue : waitq'[p] # <<>> => n[p] <= Cardinality(Bound(p)')
  BY <1>5, <1>11, <1>12
<1>14. QED BY <1>4, <1>9, <1>13 DEF WaitsFor

\* A thread goes on to l without waking anyone, out of its wait or from where
\* it called.  If it was under way to something, it takes it or there is none.
LEMMA MoveSide ==
  ASSUME NEW L, TwoLists(L), NEW n \in [Queue -> Nat], WaitsFor(L, n),
         NEW m \in [Queue -> Nat], NEW t \in Thread, NEW l \in L,
         At(t, pc[t]),
         \A p \in Queue : l \notin In(p),
         UNCHANGED <<sched, waitq, timer, ttmr>>,
         pc' = [pc EXCEPT ![t] = l], err' = [err EXCEPT ![t] = "ok"] \/ err' = err,
         \A p \in Queue : /\ m[p] <= n[p]
                          /\ t \in Bound(p) => m[p] = 0 \/ m[p] < n[p]
  PROVE  WaitsFor(L, m)'
<1>1. t = sched.cur /\ sched.stat[t] = "running"
  BY DEF At, cur
<1>2. sched' \in SchedState /\ SchedInv(sched') /\ SameSleepers(sched, sched')
  BY DEF WaitsFor, WaitTypeOK, WaitInv, SameSleepers
<1>3. /\ pc' \in [Thread -> L] /\ err' \in [Thread -> Err]
      /\ \A x \in Thread : pc'[x] = IF x = t THEN l ELSE pc[x]
      /\ \A x \in Thread \ {t} : err'[x] = err[x]
  BY DEF WaitsFor, WaitTypeOK, Err
<1>4. WaitTypeOK(L) /\ WaitInv
  BY DEF WaitsFor
<1>5. WaitTypeOK(L)' /\ WaitInv'
  BY <1>1, <1>2, <1>3, <1>4, GoOnWait
<1>6. ASSUME NEW p \in Queue
      PROVE  \/ m[p] = 0
             \/ m[p] <= n[p] /\ Bound(p) \subseteq Bound(p)'
             \/ m[p] < n[p] /\ \E x \in Bound(p) : Bound(p) \ {x} \subseteq Bound(p)'
  <2>1. Bound(p) \ {t} \subseteq Bound(p)'
    BY <1>3 DEF Bound
  <2>2. QED BY <2>1
<1>7. \A p \in Queue : ToSet(waitq'[p]) \subseteq ToSet(waitq[p])
  OBVIOUS
<1>8. \A x \in Thread : sched.stat[x] = "suspend" =>
        \A p \in Queue : pc[x] \in In(p) => pc'[x] \in In(p)
  BY <1>1, <1>3
<1>9. QED BY <1>5, <1>6, <1>7, <1>8, NobodyLost

\* rt_schedule between two looks at the object
LEMMA SwitchSide ==
  ASSUME NEW L, TwoLists(L), NEW n \in [Queue -> Nat], WaitsFor(L, n),
         NEW t \in Thread, NEW q \in Queue,
         NEW a \in In(q), NEW b \in In(q), Switch(t, a, b)
  PROVE  /\ WaitsFor(L, n)'
         /\ \A x \in Thread : \/ pc'[x] = pc[x]
                              \/ pc[x] \in In(q) /\ pc'[x] \in In(q)
<1>1. a \in L /\ a # "run" /\ b \in L /\ b # "run"
  BY Sides
<1>2. WaitTypeOK(L) /\ WaitInv
  BY DEF WaitsFor
<1>3. /\ WaitTypeOK(L)' /\ WaitInv'
      /\ SameSleepers(sched, sched')
      /\ UNCHANGED <<waitq, err>>
      /\ pc[t] = a
      /\ \A x \in Thread : pc'[x] = IF x = t THEN b ELSE pc[x]
  BY <1>1, <1>2, SwitchWait
<1>4. \A x \in Thread : \A p \in Queue : pc[x] \in In(p) => pc'[x] \in In(p)
  BY <1>3, Sides
<1>5. \A p \in Queue : Bound(p) \subseteq Bound(p)'
  BY <1>3, <1>4 DEF Bound, SameSleepers
<1>6. \A p \in Queue : ToSet(waitq'[p]) \subseteq ToSet(waitq[p])
  BY <1>3
<1>7. \A p \in Queue : n[p] <= n[p]
  OBVIOUS
<1>8. WaitsFor(L, n)'
  BY <1>3, <1>4, <1>5, <1>6, <1>7, NobodyLost
<1>9. QED BY <1>3, <1>8

\* Two lists one after the other
LEMMA ConcatSeq ==
  ASSUME NEW S, NEW a \in Seq(S), NEW b \in Seq(S)
  PROVE  /\ a \o b \in Seq(S)
         /\ ToSet(a \o b) = ToSet(a) \cup ToSet(b)
         /\ IsInjective(a) /\ IsInjective(b) /\ ToSet(a) \cap ToSet(b) = {}
              => IsInjective(a \o b)
<1> DEFINE c == a \o b
<1>1. /\ c \in Seq(S) /\ Len(a) \in Nat /\ Len(b) \in Nat
      /\ Len(c) = Len(a) + Len(b)
      /\ \A i \in 1 .. Len(a) + Len(b) :
           c[i] = IF i <= Len(a) THEN a[i] ELSE b[i - Len(a)]
  BY ConcatProperties
<1> HIDE DEF c
<1>2. \A i \in 1 .. Len(a) : i \in 1 .. Len(c) /\ c[i] = a[i]
  BY <1>1
<1>3. \A i \in 1 .. Len(b) : Len(a) + i \in 1 .. Len(c) /\ c[Len(a) + i] = b[i]
  <2>1. ASSUME NEW i \in 1 .. Len(b)
        PROVE  Len(a) + i \in 1 .. Len(c) /\ c[Len(a) + i] = b[i]
    <3>1. /\ Len(a) + i \in 1 .. Len(a) + Len(b)
          /\ ~(Len(a) + i <= Len(a)) /\ (Len(a) + i) - Len(a) = i
      BY <1>1
    <3>2. QED BY <1>1, <3>1
  <2>2. QED BY <2>1
<1>4. ASSUME NEW i \in 1 .. Len(c)
      PROVE  \/ i \in 1 .. Len(a) /\ c[i] = a[i]
             \/ \E k \in 1 .. Len(b) : i = Len(a) + k /\ c[i] = b[k]
  <2>1. CASE i <= Len(a)
    BY <1>1, <2>1
  <2>2. CASE ~(i <= Len(a))
    <3>1. i - Len(a) \in 1 .. Len(b) /\ i = Len(a) + (i - Len(a))
      BY <1>1, <2>2
    <3>2. QED BY <1>1, <2>2, <3>1
  <2>3. QED BY <2>1, <2>2
<1>5. ASSUME NEW x
      PROVE  x \in ToSet(c) <=> x \in ToSet(a) \/ x \in ToSet(b)
  <2>1. /\ x \in ToSet(a) <=> \E k \in 1 .. Len(a) : a[k] = x
        /\ x \in ToSet(b) <=> \E k \in 1 .. Len(b) : b[k] = x
        /\ x \in ToSet(c) <=> \E k \in 1 .. Len(c) : c[k] = x
    BY <1>1, InToSet
  <2>2. x \in ToSet(c) => x \in ToSet(a) \/ x \in ToSet(b)
    BY <1>4, <2>1
  <2>3. x \in ToSet(a) => x \in ToSet(c)
    BY <1>2, <2>1
  <2>4. x \in ToSet(b) => x \in ToSet(c)
    BY <1>3, <2>1
  <2>5. QED BY <2>2, <2>3, <2>4
<1>6. ASSUME IsInjective(a), IsInjective(b), ToSet(a) \cap ToSet(b) = {}
      PROVE  IsInjective(c)
  <2>1. /\ \A j, k \in 1 .. Len(a) : a[j] = a[k] => j = k
        /\ \A j, k \in 1 .. Len(b) : b[j] = b[k] => j = k
    BY <1>6, InjectiveSeq
  <2>2. \A j \in 1 .. Len(a), k \in 1 .. Len(b) : a[j] # b[k]
    BY <1>6, InToSet
  <2>3. ASSUME NEW j \in 1 .. Len(c), NEW k \in 1 .. Len(c), c[j] = c[k]
        PROVE  j = k
    BY <1>4, <2>1, <2>2, <2>3
  <2>4. QED BY <1>1, <2>3, InjectiveSeq
<1>7. QED BY <1>1, <1>5, <1>6 DEF c

\* Reset and detach wake the waiters of both lists, and all.
LEMMA EndSide ==
  ASSUME NEW L, TwoLists(L), NEW n \in [Queue -> Nat], WaitsFor(L, n),
         NEW m, NEW ts, ts = AllOf("recv") \o AllOf("send"),
         Ready(ts, "error"),
         sched' = Readied(ts) \/ sched' = Schedule(Readied(ts)),
         UNCHANGED pc
  PROVE  WaitsFor(L, m)'
<1>1. "recv" \in Queue /\ "send" \in Queue /\ \A q \in Queue : q = "recv" \/ q = "send"
  BY DEF TwoLists
<1>2. WaitTypeOK(L) /\ WaitInv /\ "error" \in Err
  BY DEF WaitsFor, Err
<1>3. ts = waitq["recv"] \o waitq["send"]
  BY <1>1, <1>2, AllOfIs
<1>4. /\ waitq["recv"] \in Seq(Thread) /\ IsInjective(waitq["recv"])
      /\ waitq["send"] \in Seq(Thread) /\ IsInjective(waitq["send"])
  BY <1>1, <1>2 DEF WaitTypeOK, WaitInv, ListsAgree
<1>5. ToSet(waitq["recv"]) \cap ToSet(waitq["send"]) = {}
  BY <1>1, <1>2 DEF WaitInv, ListsAgree
<1>6. /\ ts \in Seq(Thread) /\ IsInjective(ts)
      /\ ToSet(ts) = ToSet(waitq["recv"]) \cup ToSet(waitq["send"])
  <2>1. PICK a \in Seq(Thread), b \in Seq(Thread) : a = waitq["recv"] /\ b = waitq["send"]
    BY <1>4
  <2>2. ts = a \o b /\ IsInjective(a) /\ IsInjective(b) /\ ToSet(a) \cap ToSet(b) = {}
    BY <1>3, <1>4, <1>5, <2>1
  <2>3. /\ a \o b \in Seq(Thread) /\ IsInjective(a \o b)
        /\ ToSet(a \o b) = ToSet(a) \cup ToSet(b)
    BY <2>2, ConcatSeq
  <2>4. QED BY <2>1, <2>2, <2>3
<1>7. \A t \in ToSet(ts) : sched.stat[t] = "suspend"
  BY <1>1, <1>6, Sides
<1>8. SleepersStay(L)
  BY <1>2, SamePc
<1>9. /\ WaitTypeOK(L)' /\ WaitInv'
      /\ \A q \in Queue : ToSet(waitq'[q]) = ToSet(waitq[q]) \ ToSet(ts)
  BY <1>2, <1>6, <1>7, <1>8, WakeWait
<1>10. \A q \in Queue : ToSet(waitq'[q]) = {} /\ waitq'[q] = <<>>
  <2>1. ASSUME NEW q \in Queue
        PROVE  ToSet(waitq'[q]) = {} /\ waitq'[q] = <<>>
    <3>1. ToSet(waitq'[q]) = {}
      BY <1>1, <1>6, <1>9
    <3>2. waitq'[q] \in Seq(Thread)
      BY <1>9 DEF WaitTypeOK
    <3>3. QED BY <3>1, <3>2, EmptyToSet
  <2>2. QED BY <2>1
<1>11. QED BY <1>9, <1>10 DEF WaitsFor, ListsFit

\* A timeout or rt_thread_resume: the thread leaves its list, but was promised
\* nothing.
LEMMA ElsewhereSide ==
  ASSUME NEW L, TwoLists(L), NEW n \in [Queue -> Nat], WaitsFor(L, n), Elsewhere
  PROVE  WaitsFor(L, n)' /\ UNCHANGED pc
<1>1. WaitTypeOK(L) /\ WaitInv
  BY DEF WaitsFor
<1>2. /\ WaitTypeOK(L)' /\ WaitInv' /\ UNCHANGED pc
      /\ \E W \in SUBSET Thread :
           /\ \A x, y \in W : x = y
           /\ \A x \in W : sched.stat[x] = "suspend" /\ pc[x] # "run" /\ err'[x] # "ok"
           /\ \A q \in Queue : ToSet(waitq'[q]) = ToSet(waitq[q]) \ W
           /\ \A x \in Thread : pc[x] # "run" =>
                (sched'.stat[x] = "suspend" <=> sched.stat[x] = "suspend" /\ x \notin W)
           /\ \A x \in Thread \ W : err'[x] = err[x]
  BY <1>1, ElsewhereWait
<1>3. PICK W \in SUBSET Thread :
           /\ \A x, y \in W : x = y
           /\ \A x \in W : sched.stat[x] = "suspend" /\ pc[x] # "run" /\ err'[x] # "ok"
           /\ \A q \in Queue : ToSet(waitq'[q]) = ToSet(waitq[q]) \ W
           /\ \A x \in Thread : pc[x] # "run" =>
                (sched'.stat[x] = "suspend" <=> sched.stat[x] = "suspend" /\ x \notin W)
           /\ \A x \in Thread \ W : err'[x] = err[x]
  BY <1>2
<1>4. ASSUME NEW p \in Queue
      PROVE  Bound(p) \subseteq Bound(p)'
  <2>1. "run" \notin In(p) /\ pc' = pc
    BY <1>2, Sides
  <2>2. \A x \in Thread : x \in Bound(p) => x \in Bound(p)'
    BY <1>3, <2>1 DEF Bound
  <2>3. QED BY <2>2 DEF Bound
<1>5. \A p \in Queue : ToSet(waitq'[p]) \subseteq ToSet(waitq[p])
  BY <1>3
<1>6. \A x \in Thread : sched.stat[x] = "suspend" =>
        \A p \in Queue : pc[x] \in In(p) => pc'[x] \in In(p)
  BY <1>2
<1>7. \A p \in Queue : n[p] <= n[p]
  OBVIOUS
<1>8. QED BY <1>2, <1>4, <1>5, <1>6, <1>7, NobodyLost

\* At the start nobody waits.
LEMMA InitSide ==
  ASSUME NEW L, TwoLists(L), NEW n, WaitInit
  PROVE  WaitsFor(L, n)
<1>1. "run" \in L
  BY DEF TwoLists
<1>2. /\ WaitTypeOK(L) /\ WaitInv
      /\ \A q \in Queue : waitq[q] = <<>>
  BY <1>1, InitWait
<1>3. \A q \in Queue : ToSet(waitq[q]) = {}
  BY <1>2, EmptyToSet DEF WaitTypeOK
<1>4. QED BY <1>2, <1>3 DEF WaitsFor, ListsFit
=============================================================================
