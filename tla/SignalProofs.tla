---------------------------- MODULE SignalProofs ----------------------------
(***************************************************************************)
(* The objects with one wait list, for any number of threads.              *)
(*                                                                         *)
(* The semaphore: its state and the waits for it, no lost wake-up, and     *)
(* that it implements CountingSem.                                         *)
(*                                                                         *)
(* The event set: its state, no lost wake-up, and what a receiver is       *)
(* given, although thread->event_set and thread->error are fields that the *)
(* sender writes and the receiver reads later.                             *)
(***************************************************************************)
EXTENDS Semaphore, Event, KWaitProofs

-----------------------------------------------------------------------------
(* The semaphore                                                           *)

Places == {"run", "switch", "wait"}

SemTypeOK ==
  /\ value \in 0 .. ValueMax
  /\ maxValue \in 0 .. ValueMax
  /\ live \in BOOLEAN
  /\ result \in [Thread -> {"none", "ok", "fail"}]

WaitersAreOfTheLiving == waitq["susp"] # <<>> => live

\* The inductive invariant: SuspendedListed alone is not one, since a thread
\* would be woken that stands on the list for another reason than its wait.
IInv ==
  /\ WaitTypeOK(Places)
  /\ WaitInv
  /\ SemTypeOK
  /\ NobodyWaitsForUnits
  /\ WaitersAreOfTheLiving

\* A step of the semaphore is one of CountingSem or changes nothing of it.
AbstractStep == [Counting!SemNext]_(Counting!semVars)

\* The invariant says all that SemInv and NobodyWaitsForUnits say: the list of
\* rt_sem_take is the set of the threads suspended in it.
LEMMA InvFromIInv ==
  ASSUME IInv
  PROVE  SemInv /\ NobodyWaitsForUnits
<1>1. TypeOK
  BY DEF IInv, WaitTypeOK, SemTypeOK, TypeOK, Places
<1>2. "susp" \in Queue /\ \A q \in Queue : q = "susp"
  BY SemAssumption
<1>3. \A t \in ToSet(waitq["susp"]) : t \in Thread
  BY <1>2, InToSet DEF IInv, WaitTypeOK
<1>4. SuspendedListed
  BY <1>2, <1>3 DEF IInv, WaitInv, ListsAgree, SuspendedListed, WaitersAreOfTheLiving
<1>5. QED BY <1>1, <1>4 DEF SemInv, IInv, WaitInv

\* Facts about the one wait list that every step needs
LEMMA TheList ==
  ASSUME IInv
  PROVE  /\ "susp" \in Queue /\ Queue = {"susp"}
         /\ waitq["susp"] \in Seq(Thread)
         /\ \A t \in ToSet(waitq["susp"]) : t \in Thread
         /\ \A t \in Thread : t \in ToSet(waitq["susp"])
              <=> sched.stat[t] = "suspend" /\ pc[t] # "run"
         /\ ToSet(waitq["susp"]) = {} <=> waitq["susp"] = <<>>
<1>1. "susp" \in Queue /\ Queue = {"susp"}
  BY SemAssumption
<1>2. waitq["susp"] \in Seq(Thread)
  BY <1>1 DEF IInv, WaitTypeOK
<1>3. \A t \in ToSet(waitq["susp"]) : t \in Thread
  BY <1>2, InToSet
<1>4. \A t \in Thread : t \in ToSet(waitq["susp"])
              <=> sched.stat[t] = "suspend" /\ pc[t] # "run"
  BY <1>1 DEF IInv, WaitInv, ListsAgree
<1>5. QED BY <1>1, <1>2, <1>3, <1>4, EmptyToSet

\* When waiters leave the list, those with RT_EOK are granted a unit.
LEMMA GrantedLeave ==
  ASSUME NEW W \in SUBSET Thread, UNCHANGED pc,
         \A x \in W : sched.stat[x] = "suspend" /\ pc[x] # "run",
         \A x \in Thread : pc[x] # "run" =>
           (sched'.stat[x] = "suspend" <=> sched.stat[x] = "suspend" /\ x \notin W),
         \A x \in Thread \ W : err'[x] = err[x]
  PROVE  Granted' = Granted \cup {x \in W : err'[x] = "ok"}
BY DEF Granted

-----------------------------------------------------------------------------
(* The actions                                                             *)

\* rt_sem_take with a unit there, or without one and with timeout 0
LEMMA TakeAtOnceStep ==
  ASSUME IInv, NEW t \in Thread, TakeUnit(t) \/ TakeNothing(t)
  PROVE  IInv' /\ AbstractStep
<1>1. UNCHANGED waitVars /\ At(t, "run")
  BY DEF TakeUnit, TakeNothing
<1>2. UNCHANGED <<sched, waitq, err, timer, ttmr, pc>>
  BY <1>1 DEF waitVars
<1>3. WaitTypeOK(Places)' /\ WaitInv'
  BY <1>2 DEF IInv, WaitTypeOK, WaitInv, ListsAgree, TimersAgree
<1>4. SemTypeOK' /\ NobodyWaitsForUnits' /\ WaitersAreOfTheLiving'
  <2>1. /\ value' \in 0 .. ValueMax /\ value' <= value
        /\ result' \in [Thread -> {"none", "ok", "fail"}]
    BY SemAssumption DEF IInv, SemTypeOK, TakeUnit, TakeNothing
  <2>2. UNCHANGED <<waitq, maxValue, live>>
    BY <1>2 DEF TakeUnit, TakeNothing
  <2>3. SemTypeOK'
    BY <2>1, <2>2 DEF IInv, SemTypeOK
  <2>4. NobodyWaitsForUnits'
    BY <2>1, <2>2, SemAssumption DEF IInv, SemTypeOK, NobodyWaitsForUnits
  <2>5. WaitersAreOfTheLiving'
    BY <2>2 DEF IInv, WaitersAreOfTheLiving
  <2>6. QED BY <2>3, <2>4, <2>5
<1>5. waitq'["susp"] = waitq["susp"] /\ Granted' = Granted
  BY <1>2 DEF Granted
<1>6. t \notin ToSet(waitq["susp"]) /\ t \notin Granted
  BY <1>1, TheList DEF At, Granted
<1>7. CASE TakeUnit(t)
  <2>1. Counting!Take(t)
    BY <1>5, <1>6, <1>7 DEF Counting!Take, Counting!Away, TakeUnit
  <2>2. QED BY <1>3, <1>4, <2>1 DEF IInv, AbstractStep, Counting!SemNext
<1>8. CASE TakeNothing(t)
  <2>1. Counting!Fail(t)
    BY <1>5, <1>6, <1>8 DEF Counting!Fail, Counting!Away, TakeNothing
  <2>2. QED BY <1>3, <1>4, <2>1 DEF IInv, AbstractStep, Counting!SemNext
<1>9. QED BY <1>7, <1>8

\* rt_sem_take that waits
LEMMA TakeWaitStep ==
  ASSUME IInv, NEW t \in Thread, TakeWait(t)
  PROVE  IInv' /\ AbstractStep
<1>1. PICK timed \in BOOLEAN : Block(t, "susp", timed, "switch")
  BY DEF TakeWait, Timeouts
<1>2. t = sched.cur /\ sched.stat[t] = "running" /\ pc[t] = "run"
  BY DEF TakeWait, At, cur
<1>3. "susp" \in Queue
  BY TheList
<1>4. /\ WaitTypeOK(Places)' /\ WaitInv'
      /\ ToSet(waitq'["susp"]) = ToSet(waitq["susp"]) \cup {t}
      /\ \A x \in Thread : sched'.stat[x] = IF x = t THEN "suspend" ELSE sched.stat[x]
      /\ \A x \in Thread : /\ err'[x] = IF x = t THEN "intr" ELSE err[x]
                           /\ pc'[x] = IF x = t THEN "switch" ELSE pc[x]
  BY <1>1, <1>2, <1>3, BlockWait DEF IInv, Places
<1>5. SemTypeOK' /\ NobodyWaitsForUnits' /\ WaitersAreOfTheLiving'
  BY DEF IInv, SemTypeOK, NobodyWaitsForUnits, WaitersAreOfTheLiving, TakeWait
<1>6. Granted' = Granted
  BY <1>2, <1>4 DEF Granted
<1>7. t \notin ToSet(waitq["susp"]) /\ t \notin Granted
  BY <1>2, TheList DEF Granted
<1>8. Counting!Wait(t)
  BY <1>4, <1>6, <1>7 DEF Counting!Wait, Counting!Away, TakeWait
<1>9. QED BY <1>4, <1>5, <1>8 DEF IInv, AbstractStep, Counting!SemNext

\* rt_schedule in the waiting call changes nothing of the semaphore.
LEMMA TakeSwitchStep ==
  ASSUME IInv, NEW t \in Thread, TakeSwitch(t)
  PROVE  IInv' /\ AbstractStep
<1>1. /\ WaitTypeOK(Places)' /\ WaitInv'
      /\ SameSleepers(sched, sched')
      /\ UNCHANGED <<waitq, err>>
      /\ pc[t] = "switch"
      /\ \A x \in Thread : pc'[x] = IF x = t THEN "wait" ELSE pc[x]
  BY SwitchWait DEF IInv, TakeSwitch, Places
<1>2. UNCHANGED <<value, maxValue, live, result>>
  BY DEF TakeSwitch, semVars
<1>3. SemTypeOK' /\ NobodyWaitsForUnits' /\ WaitersAreOfTheLiving'
  BY <1>1, <1>2 DEF IInv, SemTypeOK, NobodyWaitsForUnits, WaitersAreOfTheLiving
<1>4. Granted' = Granted
  BY <1>1 DEF Granted, SameSleepers
<1>5. UNCHANGED Counting!semVars
  BY <1>1, <1>2, <1>4 DEF Counting!semVars
<1>6. QED BY <1>1, <1>3, <1>5 DEF IInv, AbstractStep

\* The woken thread returns RT_EOK exactly if it was granted a unit.
LEMMA TakeReturnStep ==
  ASSUME IInv, NEW t \in Thread, TakeReturn(t)
  PROVE  IInv' /\ AbstractStep
<1>1. t = sched.cur /\ sched.stat[t] = "running" /\ pc[t] = "wait"
  BY DEF TakeReturn, At, cur
<1>2. /\ UNCHANGED <<sched, waitq, timer, ttmr, value, maxValue, live>>
      /\ result' = [result EXCEPT ![t] = IF err[t] = "ok" THEN "ok" ELSE "fail"]
  BY DEF TakeReturn
<1>3. /\ pc' \in [Thread -> Places] /\ err' \in [Thread -> Err]
      /\ \A x \in Thread : /\ err'[x] = IF x = t THEN "ok" ELSE err[x]
                           /\ pc'[x] = IF x = t THEN "run" ELSE pc[x]
  BY DEF TakeReturn, Return, IInv, WaitTypeOK, Places, Err
<1>4. sched' \in SchedState /\ SchedInv(sched') /\ SameSleepers(sched, sched')
  BY <1>2 DEF IInv, WaitTypeOK, WaitInv, SameSleepers
<1>5. WaitTypeOK(Places)' /\ WaitInv'
  BY <1>1, <1>2, <1>3, <1>4, GoOnWait DEF IInv
<1>6. result' \in [Thread -> {"none", "ok", "fail"}]
  BY <1>2 DEF IInv, SemTypeOK
<1>7. SemTypeOK' /\ NobodyWaitsForUnits' /\ WaitersAreOfTheLiving'
  BY <1>2, <1>6 DEF IInv, SemTypeOK, NobodyWaitsForUnits, WaitersAreOfTheLiving
<1>8. t \notin ToSet(waitq["susp"])
  BY <1>1, TheList
<1>9. Granted' = Granted \ {t}
  BY <1>2, <1>3 DEF Granted
<1>10. waitq'["susp"] = waitq["susp"]
  BY <1>2
<1>11. CASE err[t] = "ok"
  <2>1. t \in Granted
    BY <1>1, <1>11 DEF Granted
  <2>2. Counting!Collect(t)
    BY <1>2, <1>9, <1>10, <1>11, <2>1 DEF Counting!Collect
  <2>3. QED BY <1>5, <1>7, <2>2 DEF IInv, AbstractStep, Counting!SemNext
<1>12. CASE err[t] # "ok"
  <2>1. t \notin Granted
    BY <1>12 DEF Granted
  <2>2. Counting!Fail(t)
    BY <1>2, <1>8, <1>9, <1>10, <1>12, <2>1 DEF Counting!Fail, Counting!Away
  <2>3. QED BY <1>5, <1>7, <2>2 DEF IInv, AbstractStep, Counting!SemNext
<1>13. QED BY <1>11, <1>12

\* rt_sem_release gives the unit to the first waiter, or counts it.
LEMMA ReleaseStep ==
  ASSUME IInv, Release
  PROVE  IInv' /\ AbstractStep
<1>1. /\ "susp" \in Queue
      /\ UNCHANGED <<pc, maxValue, live, result>>
      /\ WakeOne("susp", "ok") /\ "ok" \in Err /\ UNCHANGED pc
  BY TheList DEF Release, Err
<1>2. /\ WaitTypeOK(Places)' /\ WaitInv'
      /\ Woken("susp") \subseteq ToSet(waitq["susp"])
      /\ \A p \in Queue : ToSet(waitq'[p]) = ToSet(waitq[p]) \ Woken("susp")
      /\ \A t \in Thread : sched'.stat[t] = "suspend"
                             <=> sched.stat[t] = "suspend" /\ t \notin Woken("susp")
      /\ \A t \in Thread : err'[t] = IF t \in Woken("susp") THEN "ok" ELSE err[t]
  BY <1>1, SamePc, WakeOneWait DEF IInv
<1>3. CASE waitq["susp"] = <<>>
  <2>1. UNCHANGED <<sched, waitq, err, timer, ttmr>>
    BY <1>1, <1>3 DEF WakeOne
  <2>2. value' = IF value < maxValue THEN value + 1 ELSE value
    BY <1>3 DEF Release
  <2>3. SemTypeOK' /\ NobodyWaitsForUnits' /\ WaitersAreOfTheLiving'
    BY <1>1, <1>3, <2>1, <2>2, SemAssumption
       DEF IInv, SemTypeOK, NobodyWaitsForUnits, WaitersAreOfTheLiving
  <2>4. Granted' = Granted /\ ToSet(waitq["susp"]) = {} /\ waitq'["susp"] = waitq["susp"]
    BY <1>1, <1>3, <2>1, TheList DEF Granted
  <2>5. CASE value < maxValue
    <3>1. Counting!Post
      BY <1>1, <2>2, <2>4, <2>5 DEF Counting!Post
    <3>2. QED BY <1>2, <2>3, <3>1 DEF IInv, AbstractStep, Counting!SemNext
  <2>6. CASE ~(value < maxValue)
    <3>1. UNCHANGED Counting!semVars
      BY <1>1, <2>2, <2>4, <2>6 DEF Counting!semVars
    <3>2. QED BY <1>2, <2>3, <3>1 DEF IInv, AbstractStep
  <2>7. QED BY <2>5, <2>6
<1>4. CASE waitq["susp"] # <<>>
  <2> DEFINE h == Head(waitq["susp"])
  <2>1. /\ h \in ToSet(waitq["susp"])
        /\ ToSet(waitq'["susp"]) = ToSet(waitq["susp"]) \ {h}
        /\ \A t \in Thread : sched'.stat[t] = "suspend"
                               <=> sched.stat[t] = "suspend" /\ t # h
        /\ \A t \in Thread : err'[t] = IF t = h THEN "ok" ELSE err[t]
    BY <1>1, <1>2, <1>4 DEF Woken
  <2> HIDE DEF h
  <2>2. h \in Thread /\ sched.stat[h] = "suspend" /\ pc[h] # "run"
    BY <2>1, TheList
  <2>3. value' = value
    BY <1>4 DEF Release
  <2>4. waitq'["susp"] # <<>> => waitq["susp"] # <<>>
    BY <1>4
  <2>5. SemTypeOK' /\ NobodyWaitsForUnits' /\ WaitersAreOfTheLiving'
    BY <1>1, <1>4, <2>3, <2>4
       DEF IInv, SemTypeOK, NobodyWaitsForUnits, WaitersAreOfTheLiving
  <2>6. Granted' = Granted \cup {h}
    BY <1>1, <2>1, <2>2 DEF Granted
  <2>7. Counting!Grant(h)
    BY <1>1, <2>1, <2>3, <2>6 DEF Counting!Grant
  <2>8. QED BY <1>2, <2>2, <2>5, <2>7 DEF IInv, AbstractStep, Counting!SemNext
<1>5. QED BY <1>3, <1>4

\* Waking all waiters with an error empties the list and grants nothing.
LEMMA WakeAllFails ==
  ASSUME IInv, Ready(AllOf("susp"), "error"),
         \/ sched' = Readied(AllOf("susp"))
         \/ sched' = Schedule(Readied(AllOf("susp"))),
         UNCHANGED pc
  PROVE  /\ WaitTypeOK(Places)' /\ WaitInv'
         /\ waitq'["susp"] = <<>> /\ ToSet(waitq'["susp"]) = {}
         /\ Granted' = Granted
<1>1. /\ "susp" \in Queue /\ "error" \in Err
      /\ \A t \in ToSet(waitq["susp"]) :
           t \in Thread /\ sched.stat[t] = "suspend" /\ pc[t] # "run"
  BY TheList DEF Err
<1>2. /\ WaitTypeOK(Places)' /\ WaitInv'
      /\ \A p \in Queue : ToSet(waitq'[p]) = ToSet(waitq[p]) \ ToSet(waitq["susp"])
      /\ \A t \in Thread : sched'.stat[t] = "suspend"
           <=> sched.stat[t] = "suspend" /\ t \notin ToSet(waitq["susp"])
      /\ \A t \in Thread : err'[t] = IF t \in ToSet(waitq["susp"]) THEN "error" ELSE err[t]
  BY <1>1, WakeAllWait DEF IInv
<1>3. ToSet(waitq'["susp"]) = {}
  BY <1>1, <1>2
<1>4. waitq'["susp"] = <<>>
  BY <1>1, <1>2, <1>3, EmptyToSet DEF WaitTypeOK
<1>5. Granted' = Granted
  BY <1>1, <1>2 DEF Granted
<1>6. QED BY <1>2, <1>3, <1>4, <1>5

\* RT_IPC_CMD_RESET and rt_sem_detach end all waits.
LEMMA EndAllStep ==
  ASSUME IInv, (\E v \in 0 .. ValueMax : Reset(v)) \/ Detach
  PROVE  IInv' /\ AbstractStep
<1>1. PICK v \in 0 .. ValueMax : Reset(v) \/ (Detach /\ v = value)
  BY DEF IInv, SemTypeOK, Detach
<1>2. /\ Ready(AllOf("susp"), "error") /\ UNCHANGED pc
      /\ \/ sched' = Readied(AllOf("susp"))
         \/ sched' = Schedule(Readied(AllOf("susp")))
  BY <1>1 DEF Reset, Detach, WakeAs
<1>3. value' = v /\ UNCHANGED <<maxValue, result>> /\ live' \in BOOLEAN
  BY <1>1 DEF Reset, Detach, IInv, SemTypeOK
<1>4. /\ WaitTypeOK(Places)' /\ WaitInv'
      /\ waitq'["susp"] = <<>> /\ ToSet(waitq'["susp"]) = {}
      /\ Granted' = Granted
  BY <1>2, WakeAllFails
<1>5. SemTypeOK' /\ NobodyWaitsForUnits' /\ WaitersAreOfTheLiving'
  BY <1>3, <1>4 DEF IInv, SemTypeOK, NobodyWaitsForUnits, WaitersAreOfTheLiving
<1>6. Counting!Reset(v)
  BY <1>3, <1>4 DEF Counting!Reset
<1>7. QED BY <1>4, <1>5, <1>6 DEF IInv, AbstractStep, Counting!SemNext

\* RT_IPC_CMD_SET_VLIMIT: the branch that resumes waiters is never taken.
LEMMA SetLimitStep ==
  ASSUME IInv, NEW v \in 0 .. ValueMax, SetLimit(v)
  PROVE  IInv' /\ AbstractStep
<1>1. ~(v < value /\ waitq["susp"] # <<>>)
  BY SemAssumption DEF IInv, SemTypeOK, NobodyWaitsForUnits
<1>2. UNCHANGED <<sched, waitq, err, timer, ttmr, pc, value, live, result>> /\ maxValue' = v
  BY <1>1 DEF SetLimit
<1>3. WaitTypeOK(Places)' /\ WaitInv'
  BY <1>2 DEF IInv, WaitTypeOK, WaitInv, ListsAgree, TimersAgree
<1>4. SemTypeOK' /\ NobodyWaitsForUnits' /\ WaitersAreOfTheLiving'
  BY <1>2 DEF IInv, SemTypeOK, NobodyWaitsForUnits, WaitersAreOfTheLiving
<1>5. waitq'["susp"] = waitq["susp"] /\ Granted' = Granted
  BY <1>2 DEF Granted
<1>6. Counting!SetLimit(v)
  BY <1>2, <1>5 DEF Counting!SetLimit
<1>7. QED BY <1>3, <1>4, <1>6 DEF IInv, AbstractStep, Counting!SemNext

\* A timeout or rt_thread_resume: the thread gives up its wait.
LEMMA ElsewhereStep ==
  ASSUME IInv, Elsewhere, UNCHANGED semVars
  PROVE  IInv' /\ AbstractStep
<1>1. /\ WaitTypeOK(Places)' /\ WaitInv' /\ UNCHANGED pc
      /\ \E W \in SUBSET Thread :
           /\ \A x, y \in W : x = y
           /\ \A x \in W : sched.stat[x] = "suspend" /\ pc[x] # "run" /\ err'[x] # "ok"
           /\ \A q \in Queue : ToSet(waitq'[q]) = ToSet(waitq[q]) \ W
           /\ \A x \in Thread : pc[x] # "run" =>
                (sched'.stat[x] = "suspend" <=> sched.stat[x] = "suspend" /\ x \notin W)
           /\ \A x \in Thread \ W : err'[x] = err[x]
  BY ElsewhereWait DEF IInv
<1>2. PICK W \in SUBSET Thread :
           /\ \A x, y \in W : x = y
           /\ \A x \in W : sched.stat[x] = "suspend" /\ pc[x] # "run" /\ err'[x] # "ok"
           /\ \A q \in Queue : ToSet(waitq'[q]) = ToSet(waitq[q]) \ W
           /\ \A x \in Thread : pc[x] # "run" =>
                (sched'.stat[x] = "suspend" <=> sched.stat[x] = "suspend" /\ x \notin W)
           /\ \A x \in Thread \ W : err'[x] = err[x]
  BY <1>1
<1>3. UNCHANGED <<value, maxValue, live, result>>
  BY DEF semVars
<1>4. ToSet(waitq'["susp"]) = ToSet(waitq["susp"]) \ W
  BY <1>2, TheList
<1>5. waitq["susp"] = <<>> => waitq'["susp"] = <<>>
  <2>1. waitq'["susp"] \in Seq(Thread)
    BY <1>1, TheList DEF WaitTypeOK
  <2>2. QED BY <1>4, <2>1, TheList, EmptyToSet
<1>6. SemTypeOK' /\ NobodyWaitsForUnits' /\ WaitersAreOfTheLiving'
  BY <1>3, <1>5 DEF IInv, SemTypeOK, NobodyWaitsForUnits, WaitersAreOfTheLiving
<1>7. Granted' = Granted
  <2>1. Granted' = Granted \cup {x \in W : err'[x] = "ok"}
    BY <1>1, <1>2, GrantedLeave
  <2>2. QED BY <1>2, <2>1
<1>8. CASE W = {}
  <2>1. ToSet(waitq'["susp"]) = ToSet(waitq["susp"])
    BY <1>4, <1>8
  <2>2. UNCHANGED Counting!semVars
    BY <1>3, <1>7, <2>1 DEF Counting!semVars
  <2>3. QED BY <1>1, <1>6, <2>2 DEF IInv, AbstractStep
<1>9. CASE W # {}
  <2>1. PICK x \in Thread : W = {x}
    BY <1>2, <1>9
  <2>2. x \in ToSet(waitq["susp"])
    BY <1>2, <2>1, TheList
  <2>3. Counting!GiveUp(x)
    BY <1>3, <1>4, <1>7, <2>1, <2>2 DEF Counting!GiveUp
  <2>4. QED BY <1>1, <1>6, <2>3 DEF IInv, AbstractStep, Counting!SemNext
<1>10. QED BY <1>8, <1>9

-----------------------------------------------------------------------------
(* The theorems                                                            *)

\* The invariant holds initially, and the abstract semaphore starts too.
LEMMA InitHolds ==
  ASSUME Init
  PROVE  IInv /\ Counting!SemInit
<1>1. /\ WaitTypeOK(Places) /\ WaitInv
      /\ \A q \in Queue : waitq[q] = <<>>
  BY InitWait DEF Init, Places
<1>2. waitq["susp"] = <<>>
  BY <1>1, SemAssumption
<1>3. SemTypeOK /\ NobodyWaitsForUnits /\ WaitersAreOfTheLiving
  BY <1>2, SemAssumption DEF Init, SemTypeOK, NobodyWaitsForUnits, WaitersAreOfTheLiving
<1>4. IInv
  BY <1>1, <1>3 DEF IInv
<1>5. ToSet(waitq["susp"]) = {}
  BY <1>2, <1>4, TheList
<1>6. Granted = {}
  BY DEF Init, WaitInit, Granted
<1>7. Counting!SemInit
  BY <1>5, <1>6, SemAssumption DEF Init, Counting!SemInit
<1>8. QED BY <1>4, <1>7

\* Every step keeps the invariant and is a step of the abstract semaphore.
LEMMA NextHolds ==
  ASSUME IInv, [Next]_vars
  PROVE  IInv' /\ AbstractStep
<1>1. CASE \E t \in Thread : TakeUnit(t) \/ TakeNothing(t)
  BY <1>1, TakeAtOnceStep
<1>2. CASE \E t \in Thread : TakeWait(t)
  BY <1>2, TakeWaitStep
<1>3. CASE \E t \in Thread : Continue(t)
  BY <1>3, TakeSwitchStep, TakeReturnStep DEF Continue
<1>4. CASE ReleaseByThread \/ ReleaseByIsr
  BY <1>4, ReleaseStep DEF ReleaseByThread, ReleaseByIsr
<1>5. CASE \E v \in 0 .. ValueMax : Reset(v)
  BY <1>5, EndAllStep
<1>6. CASE \E v \in 0 .. ValueMax : SetLimit(v)
  BY <1>6, SetLimitStep
<1>7. CASE Detach
  BY <1>7, EndAllStep
<1>8. CASE Elsewhere /\ UNCHANGED semVars
  BY <1>8, ElsewhereStep
<1>9. CASE UNCHANGED vars
  <2>1. /\ UNCHANGED <<sched, waitq, err, timer, ttmr, pc>>
        /\ UNCHANGED <<value, maxValue, live, result>>
    BY <1>9 DEF vars, waitVars, semVars
  <2>2. WaitTypeOK(Places)' /\ WaitInv'
    BY <2>1 DEF IInv, WaitTypeOK, WaitInv, ListsAgree, TimersAgree
  <2>3. SemTypeOK' /\ NobodyWaitsForUnits' /\ WaitersAreOfTheLiving'
    BY <2>1 DEF IInv, SemTypeOK, NobodyWaitsForUnits, WaitersAreOfTheLiving
  <2>4. UNCHANGED Counting!semVars
    BY <2>1 DEF Counting!semVars, Granted
  <2>5. QED BY <2>2, <2>3, <2>4 DEF IInv, AbstractStep
<1>10. QED BY <1>1, <1>2, <1>3, <1>4, <1>5, <1>6, <1>7, <1>8, <1>9 DEF Next

\* The state of the semaphore and of the waits for it, whatever ended them:
\* the wait list of ipc.c holds exactly the threads suspended in rt_sem_take.
THEOREM SemaphoreState == Spec => []SemInv
<1>1. Init => IInv
  BY InitHolds
<1>2. IInv /\ [Next]_vars => IInv'
  BY NextHolds
<1>3. IInv => SemInv
  BY InvFromIInv
<1>4. QED BY <1>1, <1>2, <1>3, PTL DEF Spec

\* No lost wake-up: rt_sem_release never leaves a thread waiting for a unit
\* that is there.
THEOREM NoLostUnit == Spec => []NobodyWaitsForUnits
<1>1. Init => IInv
  BY InitHolds
<1>2. IInv /\ [Next]_vars => IInv'
  BY NextHolds
<1>3. IInv => NobodyWaitsForUnits
  BY InvFromIInv
<1>4. QED BY <1>1, <1>2, <1>3, PTL DEF Spec

\* rt_sem_take and rt_sem_release implement the counting semaphore: every unit
\* is counted or given to exactly one thread, whose take returns RT_EOK.
THEOREM SemaphoreImplementsCounting == Spec => ImplementsCounting
<1>1. Init => IInv /\ Counting!SemInit
  BY InitHolds
<1>2. IInv /\ [Next]_vars => IInv' /\ [Counting!SemNext]_(Counting!semVars)
  BY NextHolds DEF AbstractStep
<1>3. QED BY <1>1, <1>2, PTL DEF Spec, ImplementsCounting, Counting!SemSpec

-----------------------------------------------------------------------------
(* The event set                                                           *)

EventPlaces == {"run", "switch", "wait", "done"}

EventFieldsOK ==
  /\ set \in SUBSET Bits
  /\ eventSet \in [Thread -> SUBSET Bits]
  /\ option \in [Thread -> Options \cup {{}}]
  /\ asked \in [Thread -> SUBSET Bits]
  /\ attached \in BOOLEAN

\* While a thread waits, its fields hold the request it made.
WaitersAsk ==
  \A t \in ToSet(waitq["susp"]) :
    option[t] \in Options /\ asked[t] # {} /\ eventSet[t] = asked[t]

\* What t has in its fields is a receipt for its request.
Receipt(t) ==
  /\ eventSet[t] # {} /\ eventSet[t] \subseteq asked[t]
  /\ "and" \in option[t] => eventSet[t] = asked[t]

\* A thread in a call that no longer sleeps has a receipt if its error is
\* RT_EOK, wherever in the call it stands.
FieldsMeanReceipt ==
  \A t \in Thread :
    /\ pc[t] \in {"run", "done"} => err[t] = "ok"
    /\ pc[t] # "run" /\ sched.stat[t] # "suspend" /\ err[t] = "ok" => Receipt(t)

\* The inductive invariant
EventIInv ==
  /\ WaitTypeOK(EventPlaces)
  /\ WaitInv
  /\ EventFieldsOK
  /\ WaitersAsk
  /\ FieldsMeanReceipt
  /\ NobodyWaitsForEvents

\* What EventsAccounted says of a step that sends s, or with s empty of any other
AccountedWith(s) ==
  /\ set' \subseteq set \cup s
  /\ \A t \in Thread : Got(t) =>
       /\ eventSet'[t] \subseteq set \cup s
       /\ "clear" \in option'[t] => eventSet'[t] \cap set' = {}
  /\ \A b \in (set \cup s) \ set' :
       \/ EventReset
       \/ \E t \in Thread : Got(t) /\ "clear" \in option'[t] /\ b \in eventSet'[t]

Accounted == \E s \in SUBSET Bits : (s # {} => Sends(s)) /\ AccountedWith(s)

\* What SendReachesAll says of a step that sends s
Reached(s) ==
  \A t \in ToSet(waitq["susp"]) :
    IF Satisfied(asked[t], option[t], set \cup s)
    THEN /\ Got(t) /\ t \notin ToSet(waitq'["susp"])
         /\ eventSet'[t] = asked[t] \cap (set \cup s)
    ELSE t \in ToSet(waitq'["susp"]) /\ eventSet'[t] = asked[t]

StepOK == EventIInv' /\ Accounted

\* The invariant says what the properties say.
LEMMA EventInvFromIInv ==
  ASSUME EventIInv
  PROVE  EventInv /\ ReceivedAsAsked
<1>1. EventTypeOK
  BY DEF EventIInv, WaitTypeOK, EventFieldsOK, WaitersAsk, EventTypeOK, EventPlaces
<1>2. ASSUME NEW t \in Thread, pc[t] = "done"
      PROVE  err[t] = "ok" /\ Receipt(t)
  <2>1. err[t] = "ok"
    BY <1>2 DEF EventIInv, FieldsMeanReceipt
  <2>2. sched.stat[t] # "suspend"
    BY <1>2, <2>1 DEF EventIInv, WaitInv, ListsAgree
  <2>3. QED BY <1>2, <2>1, <2>2 DEF EventIInv, FieldsMeanReceipt
<1>3. ReceivedAsAsked
  BY <1>2 DEF ReceivedAsAsked, Receipt
<1>4. QED BY <1>1, <1>3 DEF EventInv, EventIInv

\* Facts about the one wait list that every step needs
LEMMA EventList ==
  ASSUME EventIInv
  PROVE  /\ "susp" \in Queue /\ Queue = {"susp"}
         /\ waitq["susp"] \in Seq(Thread) /\ IsInjective(waitq["susp"])
         /\ \A t \in ToSet(waitq["susp"]) : t \in Thread /\ err[t] = "intr"
         /\ \A t \in Thread : t \in ToSet(waitq["susp"])
              <=> sched.stat[t] = "suspend" /\ pc[t] # "run"
<1>1. "susp" \in Queue /\ Queue = {"susp"}
  BY EventAssumption
<1>2. waitq["susp"] \in Seq(Thread)
  BY <1>1 DEF EventIInv, WaitTypeOK
<1>3. \A t \in ToSet(waitq["susp"]) : t \in Thread
  BY <1>2, InToSet
<1>4. QED BY <1>1, <1>2, <1>3 DEF EventIInv, WaitInv, ListsAgree

\* A step that gives nobody events leaves the set as it is, or is a reset.
LEMMA NobodyGets ==
  ASSUME \A t \in Thread : ~Got(t), set' = set \/ (EventReset /\ set' \subseteq set)
  PROVE  Accounted
<1>1. AccountedWith({})
  BY DEF AccountedWith
<1>2. QED BY <1>1 DEF Accounted

-----------------------------------------------------------------------------
(* Receiving                                                               *)

\* rt_event_recv with the events there takes what it asked for, and only it.
LEMMA RecvNowStep ==
  ASSUME EventIInv, NEW t \in Thread, NEW s \in Requests, NEW opt \in Options,
         RecvNow(t, s, opt)
  PROVE  StepOK
<1>1. /\ t = sched.cur /\ sched.stat[t] = "running" /\ pc[t] = "run"
      /\ UNCHANGED <<sched, waitq, err, timer, ttmr, attached>>
      /\ Satisfied(s, opt, set)
  BY DEF RecvNow, At, cur
<1>2. s \in SUBSET Bits /\ s # {} /\ set \in SUBSET Bits
  BY DEF Requests, EventIInv, EventFieldsOK
<1>3. /\ pc' \in [Thread -> EventPlaces]
      /\ \A x \in Thread : pc'[x] = IF x = t THEN "done" ELSE pc[x]
  BY DEF RecvNow, EventIInv, WaitTypeOK, EventPlaces
<1>4. /\ eventSet' \in [Thread -> SUBSET Bits]
      /\ option' \in [Thread -> Options \cup {{}}]
      /\ asked' \in [Thread -> SUBSET Bits]
      /\ eventSet'[t] = set \cap s /\ option'[t] = opt /\ asked'[t] = s
      /\ \A x \in Thread \ {t} :
           eventSet'[x] = eventSet[x] /\ option'[x] = option[x] /\ asked'[x] = asked[x]
  BY <1>2 DEF RecvNow, EventIInv, EventFieldsOK
<1>5. /\ set' \subseteq set /\ set' \in SUBSET Bits
      /\ "clear" \in opt => set' = set \ s
  BY <1>2 DEF RecvNow
<1>6. set \cap s # {} /\ ("and" \in opt => set \cap s = s)
  BY <1>1, <1>2 DEF Satisfied
<1>7. sched' \in SchedState /\ SchedInv(sched') /\ SameSleepers(sched, sched')
      /\ err' \in [Thread -> Err]
  BY <1>1 DEF EventIInv, WaitTypeOK, WaitInv, SameSleepers
<1>8. WaitTypeOK(EventPlaces)' /\ WaitInv'
  BY <1>1, <1>3, <1>7, GoOnWait DEF EventIInv
<1>9. t \notin ToSet(waitq["susp"]) /\ ToSet(waitq'["susp"]) = ToSet(waitq["susp"])
  BY <1>1, EventList
<1>10. EventFieldsOK'
  BY <1>1, <1>4, <1>5 DEF EventIInv, EventFieldsOK
<1>11. WaitersAsk'
  BY <1>4, <1>9, EventList DEF EventIInv, WaitersAsk
<1>12. NobodyWaitsForEvents'
  <2>1. ASSUME NEW x \in ToSet(waitq'["susp"])
        PROVE  ~Satisfied(eventSet'[x], option'[x], set')
    <3>1. x \in Thread \ {t} /\ ~Satisfied(eventSet[x], option[x], set)
      BY <1>9, EventList DEF EventIInv, NobodyWaitsForEvents
    <3>2. QED BY <1>4, <1>5, <3>1 DEF Satisfied
  <2>2. QED BY <2>1 DEF NobodyWaitsForEvents
<1>13. FieldsMeanReceipt'
  <2>1. ASSUME NEW x \in Thread
        PROVE  /\ pc'[x] \in {"run", "done"} => err'[x] = "ok"
               /\ pc'[x] # "run" /\ sched'.stat[x] # "suspend" /\ err'[x] = "ok"
                    => Receipt(x)'
    <3>1. CASE x = t
      BY <1>1, <1>3, <1>4, <1>6, <3>1 DEF EventIInv, FieldsMeanReceipt, Receipt
    <3>2. CASE x # t
      BY <1>1, <1>3, <1>4, <3>2 DEF EventIInv, FieldsMeanReceipt, Receipt
    <3>3. QED BY <3>1, <3>2
  <2>2. QED BY <2>1 DEF FieldsMeanReceipt
<1>14. \A x \in Thread : Got(x) => x = t
  BY <1>1, <1>3 DEF Got
<1>15. AccountedWith({})
  <2>1. ASSUME NEW b \in set \ set'
        PROVE  Got(t) /\ "clear" \in option'[t] /\ b \in eventSet'[t]
    <3>1. "clear" \in opt /\ set' = set \ s
      BY <2>1 DEF RecvNow
    <3>2. b \in set \cap s
      BY <2>1, <3>1
    <3>3. Got(t)
      BY <1>1, <1>3, <1>4, <1>6 DEF Got
    <3>4. QED BY <1>4, <3>1, <3>2, <3>3
  <2>2. QED BY <1>4, <1>5, <1>14, <2>1 DEF AccountedWith
<1>16. Accounted
  BY <1>15 DEF Accounted
<1>17. QED BY <1>8, <1>10, <1>11, <1>12, <1>13, <1>16 DEF StepOK, EventIInv

\* rt_event_recv that waits keeps its request in the fields of the thread.
LEMMA RecvWaitStep ==
  ASSUME EventIInv, NEW t \in Thread, NEW s \in Requests, NEW opt \in Options,
         RecvWait(t, s, opt)
  PROVE  StepOK
<1>1. /\ t = sched.cur /\ sched.stat[t] = "running" /\ pc[t] = "run"
      /\ UNCHANGED <<set, attached>> /\ ~Satisfied(s, opt, set)
  BY DEF RecvWait, At, cur
<1>2. PICK timed \in BOOLEAN : Block(t, "susp", timed, "switch")
  BY DEF RecvWait, Timeouts
<1>3. s \in SUBSET Bits /\ s # {}
  BY DEF Requests
<1>4. "susp" \in Queue
  BY EventList
<1>5. /\ WaitTypeOK(EventPlaces)' /\ WaitInv'
      /\ ToSet(waitq'["susp"]) = ToSet(waitq["susp"]) \cup {t}
      /\ \A x \in Thread : sched'.stat[x] = IF x = t THEN "suspend" ELSE sched.stat[x]
      /\ \A x \in Thread : /\ err'[x] = IF x = t THEN "intr" ELSE err[x]
                           /\ pc'[x] = IF x = t THEN "switch" ELSE pc[x]
  BY <1>1, <1>2, <1>4, BlockWait DEF EventIInv, EventPlaces
<1>6. /\ eventSet' \in [Thread -> SUBSET Bits]
      /\ option' \in [Thread -> Options \cup {{}}]
      /\ asked' \in [Thread -> SUBSET Bits]
      /\ eventSet'[t] = s /\ option'[t] = opt /\ asked'[t] = s
      /\ \A x \in Thread \ {t} :
           eventSet'[x] = eventSet[x] /\ option'[x] = option[x] /\ asked'[x] = asked[x]
  BY <1>3 DEF RecvWait, EventIInv, EventFieldsOK
<1>7. EventFieldsOK'
  BY <1>1, <1>6 DEF EventIInv, EventFieldsOK
<1>8. \A x \in ToSet(waitq'["susp"]) : x = t \/ (x \in ToSet(waitq["susp"]) /\ x \in Thread \ {t})
  BY <1>1, <1>5, EventList
<1>9. WaitersAsk'
  BY <1>3, <1>6, <1>8 DEF EventIInv, WaitersAsk
<1>10. NobodyWaitsForEvents'
  BY <1>1, <1>6, <1>8 DEF EventIInv, NobodyWaitsForEvents
<1>11. FieldsMeanReceipt'
  <2>1. ASSUME NEW x \in Thread \ {t}
        PROVE  /\ pc'[x] \in {"run", "done"} => err'[x] = "ok"
               /\ pc'[x] # "run" /\ sched'.stat[x] # "suspend" /\ err'[x] = "ok"
                    => Receipt(x)'
    BY <1>5, <1>6 DEF EventIInv, FieldsMeanReceipt, Receipt
  <2>2. pc'[t] = "switch" /\ err'[t] = "intr"
    BY <1>5
  <2>3. QED BY <2>1, <2>2 DEF FieldsMeanReceipt
<1>12. \A x \in Thread : ~Got(x)
  BY <1>1, <1>5, EventList DEF Got
<1>13. QED BY <1>1, <1>5, <1>7, <1>9, <1>10, <1>11, <1>12, NobodyGets DEF StepOK, EventIInv

\* A thread that goes on in its call, or comes back from it, keeps the event as
\* it is; what it hands out is what the sender left in its fields.
LEMMA ContinueStep ==
  ASSUME EventIInv, NEW t \in Thread, EventContinue(t)
  PROVE  StepOK
<1> DEFINE
      Waits ==
        /\ WaitTypeOK(EventPlaces)' /\ WaitInv' /\ pc[t] # "run"
        /\ \A x \in Thread : sched'.stat[x] = "suspend" <=> sched.stat[x] = "suspend"
      Object == waitq' = waitq /\ set' = set /\ attached' = attached
      Others == \A x \in Thread \ {t} :
        /\ pc'[x] = pc[x] /\ err'[x] = err[x]
        /\ eventSet'[x] = eventSet[x] /\ option'[x] = option[x] /\ asked'[x] = asked[x]
      Types ==
        /\ eventSet' \in [Thread -> SUBSET Bits]
        /\ option' \in [Thread -> Options \cup {{}}]
        /\ asked' \in [Thread -> SUBSET Bits]
      Itself ==
        \/ pc'[t] = "run" /\ err'[t] = "ok" /\ sched.stat[t] # "suspend"
        \/ /\ pc'[t] \in {"wait", "done"} /\ err'[t] = err[t]
           /\ pc'[t] = "done" => err[t] = "ok"
           /\ eventSet'[t] = eventSet[t] /\ option'[t] = option[t] /\ asked'[t] = asked[t]
<1>1. ASSUME RecvSwitch(t)
      PROVE  Waits /\ Object /\ Others /\ Types /\ Itself
  <2>1. UNCHANGED <<set, eventSet, option, asked, attached>> /\ Switch(t, "switch", "wait")
    BY <1>1 DEF RecvSwitch, eventVars
  <2>2. /\ WaitTypeOK(EventPlaces)' /\ WaitInv'
        /\ SameSleepers(sched, sched')
        /\ UNCHANGED <<waitq, err>>
        /\ pc[t] = "switch"
        /\ \A x \in Thread : pc'[x] = IF x = t THEN "wait" ELSE pc[x]
    BY <2>1, SwitchWait DEF EventIInv, EventPlaces
  <2>3. Waits
    BY <2>2 DEF SameSleepers
  <2>4. eventSet' = eventSet /\ option' = option /\ asked' = asked /\ err' = err
    BY <2>1, <2>2
  <2>5. Object
    BY <2>1, <2>2
  <2>6. Others /\ Itself
    BY <2>2, <2>4
  <2>7. Types
    BY <2>4 DEF EventIInv, EventFieldsOK
  <2>8. QED BY <2>3, <2>5, <2>6, <2>7
<1>2. ASSUME RecvWoken(t) \/ RecvFails(t) \/ RecvReturn(t)
      PROVE  Waits /\ Object /\ Others /\ Types /\ Itself
  <2>1. /\ t = sched.cur /\ sched.stat[t] = "running" /\ pc[t] \in {"wait", "done"}
    BY <1>2 DEF RecvWoken, RecvFails, RecvReturn, At, cur
  <2>2. UNCHANGED <<sched, waitq, timer, ttmr, set, attached>>
    BY <1>2 DEF RecvWoken, RecvFails, RecvReturn, eventVars
  <2>3. /\ pc' \in [Thread -> EventPlaces] /\ err' \in [Thread -> Err]
        /\ \A x \in Thread \ {t} : pc'[x] = pc[x] /\ err'[x] = err[x]
        /\ \/ pc'[t] = "run" /\ err'[t] = "ok"
           \/ pc'[t] = "done" /\ err'[t] = err[t] /\ err[t] = "ok"
    BY <1>2 DEF RecvWoken, RecvFails, RecvReturn, Return, EventIInv, WaitTypeOK, EventPlaces, Err
  <2>4. sched' \in SchedState /\ SchedInv(sched') /\ SameSleepers(sched, sched')
    BY <2>2 DEF EventIInv, WaitTypeOK, WaitInv, SameSleepers
  <2>5. WaitTypeOK(EventPlaces)' /\ WaitInv'
    BY <2>1, <2>2, <2>3, <2>4, GoOnWait DEF EventIInv
  <2>6. /\ eventSet' \in [Thread -> SUBSET Bits]
        /\ option' \in [Thread -> Options \cup {{}}]
        /\ asked' \in [Thread -> SUBSET Bits]
        /\ \A x \in Thread \ {t} :
           eventSet'[x] = eventSet[x] /\ option'[x] = option[x] /\ asked'[x] = asked[x]
    <3>1. CASE RecvWoken(t)
      BY <3>1 DEF RecvWoken, eventVars, EventIInv, EventFieldsOK
    <3>2. CASE RecvFails(t) \/ RecvReturn(t)
      BY <3>2 DEF RecvFails, RecvReturn, EventIInv, EventFieldsOK
    <3>3. QED BY <1>2, <3>1, <3>2
  <2>7. pc'[t] = "done" =>
          eventSet'[t] = eventSet[t] /\ option'[t] = option[t] /\ asked'[t] = asked[t]
    <3>1. CASE RecvWoken(t)
      BY <3>1 DEF RecvWoken, eventVars
    <3>2. CASE RecvFails(t) \/ RecvReturn(t)
      BY <3>2 DEF RecvFails, RecvReturn, Return, EventIInv, WaitTypeOK
    <3>3. QED BY <1>2, <3>1, <3>2
  <2>8. sched' = sched /\ Object
    BY <2>2
  <2>9. Waits
    BY <2>1, <2>5, <2>8
  <2>10. Others /\ Types
    BY <2>3, <2>6
  <2>11. Itself
    BY <2>1, <2>3, <2>7
  <2>12. QED BY <2>8, <2>9, <2>10, <2>11
<1>3. Waits /\ Object /\ Others /\ Types /\ Itself
  BY <1>1, <1>2 DEF EventContinue
<1>4. waitq'["susp"] = waitq["susp"] /\ set' = set /\ attached' = attached
  BY <1>3
<1>5. EventFieldsOK'
  BY <1>3, <1>4 DEF EventIInv, EventFieldsOK
<1>6. ASSUME NEW x \in ToSet(waitq["susp"])
      PROVE  eventSet'[x] = eventSet[x] /\ option'[x] = option[x] /\ asked'[x] = asked[x]
  <2>1. x \in Thread /\ sched.stat[x] = "suspend"
    BY EventList
  <2>2. x # t \/ (x = t /\ sched.stat[t] = "suspend")
    BY <2>1
  <2>3. QED BY <1>3, <2>1, <2>2
<1>7. WaitersAsk' /\ NobodyWaitsForEvents'
  BY <1>4, <1>6 DEF EventIInv, WaitersAsk, NobodyWaitsForEvents
<1>8. FieldsMeanReceipt'
  <2>1. ASSUME NEW x \in Thread
        PROVE  /\ pc'[x] \in {"run", "done"} => err'[x] = "ok"
               /\ pc'[x] # "run" /\ sched'.stat[x] # "suspend" /\ err'[x] = "ok"
                    => Receipt(x)'
    <3>1. CASE x = t
      BY <1>3, <3>1 DEF EventIInv, FieldsMeanReceipt, Receipt
    <3>2. CASE x # t
      BY <1>3, <3>2 DEF EventIInv, FieldsMeanReceipt, Receipt
    <3>3. QED BY <3>1, <3>2
  <2>2. QED BY <2>1 DEF FieldsMeanReceipt
<1>9. \A x \in Thread : ~Got(x)
  <2>1. ASSUME NEW x \in Thread, pc[x] = "run"
        PROVE  pc'[x] # "done"
    BY <1>3, <2>1
  <2>2. ASSUME NEW x \in ToSet(waitq["susp"]), err'[x] = "ok"
        PROVE  err[x] = "ok"
    <3>1. x \in Thread /\ sched.stat[x] = "suspend"
      BY EventList
    <3>2. x # t \/ (x = t /\ sched.stat[t] = "suspend")
      BY <3>1
    <3>3. QED BY <1>3, <2>2, <3>1, <3>2
  <2>3. QED BY <2>1, <2>2 DEF Got
<1>10. QED BY <1>3, <1>4, <1>5, <1>7, <1>8, <1>9, NobodyGets DEF StepOK, EventIInv
-----------------------------------------------------------------------------
(* Sending                                                                 *)

\* rt_event_send wakes exactly the waiters that the events satisfy, gives each
\* what it asked for and clears afterwards.
LEMMA SendStep ==
  ASSUME EventIInv, NEW s \in Requests, Sends(s)
  PROVE  StepOK /\ Reached(s)
<1> DEFINE present == set \cup s
           ts      == Served(present)
           Hit     == {t \in ToSet(waitq["susp"]) :
                         Satisfied(eventSet[t], option[t], present)}
<1>1. /\ "susp" \in Queue /\ Queue = {"susp"}
      /\ waitq["susp"] \in Seq(Thread) /\ IsInjective(waitq["susp"])
      /\ \A t \in ToSet(waitq["susp"]) :
           t \in Thread /\ err[t] = "intr" /\ sched.stat[t] = "suspend" /\ pc[t] # "run"
  BY EventList
<1>2. ts \in Seq(Thread) /\ IsInjective(ts) /\ ToSet(ts) = Hit
  <2> DEFINE miss == {t \in Thread : ~Satisfied(eventSet[t], option[t], present)}
  <2>1. ts = Without(waitq["susp"], miss)
    BY DEF Served
  <2> HIDE DEF ts, miss
  <2>2. /\ ts \in Seq(Thread) /\ IsInjective(ts)
        /\ ToSet(ts) = ToSet(waitq["susp"]) \ miss
    BY <1>1, <2>1, WithoutSeq
  <2>3. QED BY <1>1, <2>2 DEF miss
<1>3. /\ present \in SUBSET Bits /\ set \subseteq present
      /\ eventSet' = [t \in Thread |->
                        IF t \in ToSet(ts) THEN Received(t, present) ELSE eventSet[t]]
      /\ set' = present \ Cleared(ts, present)
      /\ IF ts = <<>>
         THEN UNCHANGED <<sched, waitq, err, timer, ttmr>>
         ELSE WakeAs(ts, "ok")
      /\ UNCHANGED pc /\ UNCHANGED <<option, asked, attached>>
  BY DEF Sends, SendByThread, SendByIsr, Send, Requests, EventIInv, EventFieldsOK
<1>4. Cleared(ts, present) =
        UNION {Received(t, present) : t \in {u \in Hit : "clear" \in option[u]}}
  BY <1>2 DEF Cleared
<1>5. Hit \in SUBSET Thread
  BY <1>1
<1> HIDE DEF ts, Hit
<1>6. /\ WaitTypeOK(EventPlaces)' /\ WaitInv'
      /\ ToSet(waitq'["susp"]) = ToSet(waitq["susp"]) \ Hit
      /\ \A t \in Thread : sched'.stat[t] = "suspend"
                             <=> sched.stat[t] = "suspend" /\ t \notin Hit
      /\ \A t \in Thread : err'[t] = IF t \in Hit THEN "ok" ELSE err[t]
  <2>1. CASE ts = <<>>
    <3>1. sched' = sched /\ waitq' = waitq /\ err' = err /\ timer' = timer
          /\ ttmr' = ttmr /\ pc' = pc
      BY <1>3, <2>1
    <3>2. Hit = {}
      BY <1>2, <2>1, EmptyToSet
    <3>3. WaitTypeOK(EventPlaces)' /\ WaitInv'
      BY <3>1 DEF EventIInv, WaitTypeOK, WaitInv, ListsAgree, TimersAgree
    <3>4. QED BY <3>1, <3>2, <3>3
  <2>2. CASE ts # <<>>
    <3>1. sched' = Schedule(Readied(ts)) /\ Ready(ts, "ok")
      BY <1>3, <2>2 DEF WakeAs
    <3>2. "ok" \in Err /\ \A t \in ToSet(ts) : sched.stat[t] = "suspend"
      BY <1>1, <1>2 DEF Err, Hit
    <3>3. /\ WaitTypeOK(EventPlaces)' /\ WaitInv'
          /\ \A q \in Queue : ToSet(waitq'[q]) = ToSet(waitq[q]) \ ToSet(ts)
          /\ \A t \in Thread : sched'.stat[t] = "suspend"
                                 <=> sched.stat[t] = "suspend" /\ t \notin ToSet(ts)
          /\ \A t \in Thread : err'[t] = IF t \in ToSet(ts) THEN "ok" ELSE err[t]
      BY <1>2, <1>3, <3>1, <3>2, SamePc, WakeWait DEF EventIInv
    <3>4. QED BY <1>1, <1>2, <3>3
  <2>3. QED BY <2>1, <2>2
\* What a served waiter receives
<1>7. ASSUME NEW t \in Hit
      PROVE  /\ t \in Thread /\ t \in ToSet(waitq["susp"])
             /\ eventSet'[t] = Received(t, present)
             /\ Received(t, present) \subseteq present
             /\ Received(t, present) \in SUBSET Bits
             /\ Receipt(t)'
             /\ Got(t)
  <2>1. t \in ToSet(waitq["susp"]) /\ Satisfied(eventSet[t], option[t], present)
    BY <1>7 DEF Hit
  <2>2. /\ t \in Thread /\ err[t] = "intr" /\ err'[t] = "ok"
        /\ eventSet'[t] = Received(t, present)
    BY <1>1, <1>2, <1>3, <1>6, <1>7, <2>1
  <2>3. asked[t] # {} /\ eventSet[t] = asked[t]
    BY <2>1 DEF EventIInv, WaitersAsk
  <2>4. /\ Received(t, present) \subseteq present
        /\ Received(t, present) # {} /\ Received(t, present) \subseteq asked[t]
        /\ "and" \in option[t] => Received(t, present) = asked[t]
    BY <2>1, <2>3 DEF Received, Satisfied
  <2>5. Receipt(t)'
    BY <1>3, <2>2, <2>4 DEF Receipt
  <2>6. QED BY <1>3, <2>1, <2>2, <2>4, <2>5 DEF Got
<1>8. ASSUME NEW t \in Thread \ Hit
      PROVE  eventSet'[t] = eventSet[t]
  BY <1>2, <1>3, <1>8
<1>9. ASSUME NEW t \in Thread, Got(t)
      PROVE  t \in Hit
  BY <1>3, <1>6, <1>9 DEF Got
<1>10. set' \in SUBSET Bits /\ set' \subseteq present
  BY <1>3
<1>11. eventSet' \in [Thread -> SUBSET Bits]
  <2>1. ASSUME NEW t \in Thread
        PROVE  (IF t \in ToSet(ts) THEN Received(t, present) ELSE eventSet[t]) \in SUBSET Bits
    BY <1>2, <1>7 DEF EventIInv, EventFieldsOK
  <2>2. QED BY <1>3, <2>1
<1>12. EventFieldsOK'
  BY <1>3, <1>10, <1>11 DEF EventIInv, EventFieldsOK
<1>13. WaitersAsk'
  BY <1>1, <1>3, <1>6, <1>8 DEF EventIInv, WaitersAsk
<1>14. NobodyWaitsForEvents'
  <2>1. ASSUME NEW t \in ToSet(waitq'["susp"])
        PROVE  ~Satisfied(eventSet'[t], option'[t], set')
    <3>1. t \in ToSet(waitq["susp"]) /\ t \in Thread \ Hit
      BY <1>1, <1>6, <2>1
    <3>2. ~Satisfied(eventSet[t], option[t], present)
      BY <3>1 DEF Hit
    <3>3. eventSet'[t] = eventSet[t] /\ option'[t] = option[t]
      BY <1>3, <1>8, <3>1
    <3>4. QED BY <1>10, <3>2, <3>3 DEF Satisfied
  <2>2. QED BY <2>1 DEF NobodyWaitsForEvents
<1>15. FieldsMeanReceipt'
  <2>1. ASSUME NEW t \in Thread
        PROVE  /\ pc'[t] \in {"run", "done"} => err'[t] = "ok"
               /\ pc'[t] # "run" /\ sched'.stat[t] # "suspend" /\ err'[t] = "ok"
                    => Receipt(t)'
    <3>1. CASE t \in Hit
      BY <1>6, <1>7, <3>1
    <3>2. CASE t \notin Hit
      BY <1>3, <1>6, <1>8, <3>2 DEF EventIInv, FieldsMeanReceipt, Receipt
    <3>3. QED BY <3>1, <3>2
  <2>2. QED BY <2>1 DEF FieldsMeanReceipt
<1>16. AccountedWith(s)
  <2>1. ASSUME NEW t \in Thread, Got(t)
        PROVE  /\ eventSet'[t] \subseteq present
               /\ "clear" \in option'[t] => eventSet'[t] \cap set' = {}
    <3>1. t \in Hit
      BY <1>9, <2>1
    <3>2. eventSet'[t] = Received(t, present) /\ Received(t, present) \subseteq present
      BY <1>7, <3>1
    <3>3. ASSUME "clear" \in option'[t]
          PROVE  eventSet'[t] \cap set' = {}
      <4>1. t \in {u \in Hit : "clear" \in option[u]}
        BY <1>3, <3>1, <3>3
      <4>2. Received(t, present) \subseteq Cleared(ts, present)
        BY <1>4, <4>1
      <4>3. QED BY <1>3, <3>2, <4>2
    <3>4. QED BY <3>2, <3>3
  <2>2. ASSUME NEW b \in present \ set'
        PROVE  \E u \in Thread : Got(u) /\ "clear" \in option'[u] /\ b \in eventSet'[u]
    <3>1. b \in Cleared(ts, present)
      BY <1>3, <2>2
    <3>2. PICK u \in Hit : "clear" \in option[u] /\ b \in Received(u, present)
      BY <1>4, <3>1
    <3>3. QED BY <1>3, <1>7, <3>2
  <2>3. QED BY <1>10, <2>1, <2>2 DEF AccountedWith
<1>17. Reached(s)
  <2>1. ASSUME NEW t \in ToSet(waitq["susp"])
        PROVE  IF Satisfied(asked[t], option[t], present)
               THEN /\ Got(t) /\ t \notin ToSet(waitq'["susp"])
                    /\ eventSet'[t] = asked[t] \cap present
               ELSE t \in ToSet(waitq'["susp"]) /\ eventSet'[t] = asked[t]
    <3>1. t \in Thread /\ eventSet[t] = asked[t]
      BY <1>1 DEF EventIInv, WaitersAsk
    <3>2. CASE Satisfied(asked[t], option[t], present)
      <4>1. t \in Hit
        BY <3>1, <3>2 DEF Hit
      <4>2. Received(t, present) = asked[t] \cap present
        BY <3>1, <3>2 DEF Received, Satisfied
      <4>3. QED BY <1>6, <1>7, <3>2, <4>1, <4>2
    <3>3. CASE ~Satisfied(asked[t], option[t], present)
      <4>1. t \notin Hit
        BY <3>1, <3>3 DEF Hit
      <4>2. QED BY <1>6, <1>8, <3>1, <3>3, <4>1
    <3>4. QED BY <3>2, <3>3
  <2>2. QED BY <2>1 DEF Reached
<1>18. Accounted
  BY <1>16 DEF Accounted, Requests
<1>19. QED BY <1>6, <1>12, <1>13, <1>14, <1>15, <1>17, <1>18 DEF StepOK, EventIInv

-----------------------------------------------------------------------------
(* What ends waits without events                                          *)

\* When waits end with an error, and the set loses at most, the waiters that are
\* left and the receipts that are under way stay what they were.
LEMMA WaitsEnd ==
  ASSUME EventIInv, WaitTypeOK(EventPlaces)', WaitInv', UNCHANGED pc,
         UNCHANGED <<eventSet, option, asked>>,
         set' = set \/ (EventReset /\ set' \subseteq set), attached' \in BOOLEAN,
         NEW W \in SUBSET Thread,
         \A x \in W : pc[x] # "run" /\ err'[x] # "ok" /\ err[x] = "intr",
         ToSet(waitq'["susp"]) = ToSet(waitq["susp"]) \ W,
         \A x \in Thread : pc[x] # "run" =>
           (sched'.stat[x] = "suspend" <=> sched.stat[x] = "suspend" /\ x \notin W),
         \A x \in Thread \ W : err'[x] = err[x]
  PROVE  StepOK
<1>1. EventFieldsOK'
  BY DEF EventIInv, EventFieldsOK
<1>2. WaitersAsk'
  BY DEF EventIInv, WaitersAsk
<1>3. NobodyWaitsForEvents'
  BY DEF EventIInv, NobodyWaitsForEvents, Satisfied
<1>4. ASSUME NEW t \in Thread
      PROVE  /\ pc'[t] \in {"run", "done"} => err'[t] = "ok"
             /\ pc'[t] # "run" /\ sched'.stat[t] # "suspend" /\ err'[t] = "ok"
                  => Receipt(t)'
  <2>1. CASE t \in W
    <3>1. pc[t] # "run" /\ err'[t] # "ok" /\ err[t] = "intr"
      BY <2>1
    <3>2. pc[t] \notin {"run", "done"}
      BY <3>1 DEF EventIInv, FieldsMeanReceipt
    <3>3. QED BY <3>1, <3>2
  <2>2. CASE t \notin W
    BY <2>2 DEF EventIInv, FieldsMeanReceipt, Receipt
  <2>3. QED BY <2>1, <2>2
<1>5. FieldsMeanReceipt'
  BY <1>4 DEF FieldsMeanReceipt
<1>6. \A x \in Thread : ~Got(x)
  <2>1. ASSUME NEW x \in Thread, Got(x)
        PROVE  FALSE
    <3>1. err[x] # "ok" /\ err'[x] = "ok"
      BY <2>1 DEF Got
    <3>2. QED BY <3>1
  <2>2. QED BY <2>1
<1>7. QED BY <1>1, <1>2, <1>3, <1>5, <1>6, NobodyGets DEF StepOK, EventIInv

\* RT_IPC_CMD_RESET and rt_event_detach end all waits.
LEMMA EventEndAllStep ==
  ASSUME EventIInv, EventReset \/ EventDetach
  PROVE  StepOK
<1>1. /\ Ready(AllOf("susp"), "error") /\ UNCHANGED pc
      /\ \/ sched' = Readied(AllOf("susp"))
         \/ sched' = Schedule(Readied(AllOf("susp")))
      /\ UNCHANGED <<eventSet, option, asked>>
      /\ set' = set \/ (EventReset /\ set' \subseteq set)
      /\ attached' \in BOOLEAN
  BY DEF EventReset, EventDetach, WakeAs, EventIInv, EventFieldsOK
<1>2. /\ "susp" \in Queue /\ "error" \in Err
      /\ ToSet(waitq["susp"]) \in SUBSET Thread
      /\ \A t \in ToSet(waitq["susp"]) : pc[t] # "run" /\ err[t] = "intr"
  BY EventList DEF Err
<1>3. /\ WaitTypeOK(EventPlaces)' /\ WaitInv'
      /\ \A p \in Queue : ToSet(waitq'[p]) = ToSet(waitq[p]) \ ToSet(waitq["susp"])
      /\ \A t \in Thread : sched'.stat[t] = "suspend"
           <=> sched.stat[t] = "suspend" /\ t \notin ToSet(waitq["susp"])
      /\ \A t \in Thread : err'[t] = IF t \in ToSet(waitq["susp"]) THEN "error" ELSE err[t]
  BY <1>1, <1>2, WakeAllWait DEF EventIInv
<1> DEFINE W == ToSet(waitq["susp"])
<1>4. /\ ToSet(waitq'["susp"]) = ToSet(waitq["susp"]) \ W
      /\ W \in SUBSET Thread
      /\ \A x \in W : pc[x] # "run" /\ err'[x] # "ok" /\ err[x] = "intr"
      /\ \A x \in Thread : pc[x] # "run" =>
           (sched'.stat[x] = "suspend" <=> sched.stat[x] = "suspend" /\ x \notin W)
      /\ \A x \in Thread \ W : err'[x] = err[x]
  BY <1>2, <1>3
<1> HIDE DEF W
<1>5. QED BY <1>1, <1>3, <1>4, WaitsEnd

\* A timeout or rt_thread_resume ends a wait.
LEMMA EventElsewhereStep ==
  ASSUME EventIInv, Elsewhere, UNCHANGED eventVars
  PROVE  StepOK
<1>1. /\ WaitTypeOK(EventPlaces)' /\ WaitInv' /\ UNCHANGED pc
      /\ \E W \in SUBSET Thread :
           /\ \A x, y \in W : x = y
           /\ \A x \in W : sched.stat[x] = "suspend" /\ pc[x] # "run" /\ err'[x] # "ok"
           /\ \A q \in Queue : ToSet(waitq'[q]) = ToSet(waitq[q]) \ W
           /\ \A x \in Thread : pc[x] # "run" =>
                (sched'.stat[x] = "suspend" <=> sched.stat[x] = "suspend" /\ x \notin W)
           /\ \A x \in Thread \ W : err'[x] = err[x]
  BY ElsewhereWait DEF EventIInv
<1>2. PICK W \in SUBSET Thread :
           /\ \A x, y \in W : x = y
           /\ \A x \in W : sched.stat[x] = "suspend" /\ pc[x] # "run" /\ err'[x] # "ok"
           /\ \A q \in Queue : ToSet(waitq'[q]) = ToSet(waitq[q]) \ W
           /\ \A x \in Thread : pc[x] # "run" =>
                (sched'.stat[x] = "suspend" <=> sched.stat[x] = "suspend" /\ x \notin W)
           /\ \A x \in Thread \ W : err'[x] = err[x]
  BY <1>1
<1>3. /\ UNCHANGED <<eventSet, option, asked>>
      /\ set' = set /\ attached' \in BOOLEAN
  BY DEF eventVars, EventIInv, EventFieldsOK
<1>4. ToSet(waitq'["susp"]) = ToSet(waitq["susp"]) \ W
  BY <1>2, EventList
<1>5. \A x \in W : pc[x] # "run" /\ err'[x] # "ok" /\ err[x] = "intr"
  BY <1>2, EventList
<1>6. QED BY <1>1, <1>2, <1>3, <1>4, <1>5, WaitsEnd

-----------------------------------------------------------------------------
(* The theorems                                                            *)

\* Nobody waits and nothing is received at the start.
LEMMA EventInitHolds ==
  ASSUME EventInit
  PROVE  EventIInv
<1>1. /\ WaitTypeOK(EventPlaces) /\ WaitInv
      /\ \A q \in Queue : waitq[q] = <<>>
  BY InitWait DEF EventInit, EventPlaces
<1>2. ToSet(waitq["susp"]) = {}
  BY <1>1, EventAssumption, EmptyToSet DEF WaitTypeOK
<1>3. EventFieldsOK
  BY DEF EventInit, EventFieldsOK
<1>4. WaitersAsk /\ NobodyWaitsForEvents
  BY <1>2 DEF WaitersAsk, NobodyWaitsForEvents
<1>5. FieldsMeanReceipt
  BY DEF EventInit, WaitInit, FieldsMeanReceipt
<1>6. QED BY <1>1, <1>3, <1>4, <1>5 DEF EventIInv

\* Every step keeps the invariant and is one that the properties allow.
LEMMA EventNextHolds ==
  ASSUME EventIInv, [EventNext]_allEventVars
  PROVE  StepOK
<1>1. CASE \E t \in Thread, s \in Requests, opt \in Options :
             RecvNow(t, s, opt) \/ RecvWait(t, s, opt)
  BY <1>1, RecvNowStep, RecvWaitStep
<1>2. CASE \E t \in Thread : EventContinue(t)
  BY <1>2, ContinueStep
<1>3. CASE \E s \in Requests : SendByThread(s) \/ SendByIsr(s)
  BY <1>3, SendStep DEF Sends
<1>4. CASE EventReset \/ EventDetach
  BY <1>4, EventEndAllStep
<1>5. CASE Elsewhere /\ UNCHANGED eventVars
  BY <1>5, EventElsewhereStep
<1>6. CASE UNCHANGED allEventVars
  <2>1. /\ UNCHANGED <<sched, waitq, err, timer, ttmr, pc>>
        /\ UNCHANGED <<set, eventSet, option, asked, attached>>
    BY <1>6 DEF allEventVars, waitVars, eventVars
  <2>2. WaitTypeOK(EventPlaces)' /\ WaitInv'
    BY <2>1 DEF EventIInv, WaitTypeOK, WaitInv, ListsAgree, TimersAgree
  <2>3. EventFieldsOK' /\ WaitersAsk' /\ FieldsMeanReceipt' /\ NobodyWaitsForEvents'
    BY <2>1 DEF EventIInv, EventFieldsOK, WaitersAsk, FieldsMeanReceipt, Receipt,
                NobodyWaitsForEvents
  <2>4. \A t \in Thread : ~Got(t)
    BY <2>1 DEF Got
  <2>5. QED BY <2>1, <2>2, <2>3, <2>4, NobodyGets DEF StepOK, EventIInv
<1>7. QED BY <1>1, <1>2, <1>3, <1>4, <1>5, <1>6 DEF EventNext

\* The state of the event set; nobody waits for events that are there, also
\* after rt_event_send cleared what others received.
THEOREM EventState == EventSpec => []EventInv
<1>1. EventInit => EventIInv
  BY EventInitHolds
<1>2. EventIInv /\ [EventNext]_allEventVars => EventIInv'
  BY EventNextHolds DEF StepOK
<1>3. EventIInv => EventInv
  BY EventInvFromIInv
<1>4. QED BY <1>1, <1>2, <1>3, PTL DEF EventSpec

\* A receive hands out what was asked for, and thread->error says that it does,
\* whatever happened between rt_event_send and the return of the receiver.
THEOREM EventsAsAsked == EventSpec => []ReceivedAsAsked
<1>1. EventInit => EventIInv
  BY EventInitHolds
<1>2. EventIInv /\ [EventNext]_allEventVars => EventIInv'
  BY EventNextHolds DEF StepOK
<1>3. EventIInv => ReceivedAsAsked
  BY EventInvFromIInv
<1>4. QED BY <1>1, <1>2, <1>3, PTL DEF EventSpec

\* Events are neither made up nor lost nor both given away and kept: they enter
\* the set only with rt_event_send, a receiver is given what is there or sent,
\* and with RT_EVENT_FLAG_CLEAR what it got leaves the set in the same step, which
\* nothing else does but a reset.
THEOREM EventsConserved == EventSpec => EventsAccounted
<1>1. EventInit => EventIInv
  BY EventInitHolds
<1>2. EventIInv /\ [EventNext]_allEventVars => EventIInv' /\ [Accounted]_allEventVars
  BY EventNextHolds DEF StepOK
<1>3. Accounted =>
        \E s \in SUBSET Bits :
          /\ s # {} => Sends(s)
          /\ set' \subseteq set \cup s
          /\ \A t \in Thread : Got(t) =>
               /\ eventSet'[t] \subseteq set \cup s
               /\ "clear" \in option'[t] => eventSet'[t] \cap set' = {}
          /\ \A b \in (set \cup s) \ set' :
               \/ EventReset
               \/ \E t \in Thread :
                    Got(t) /\ "clear" \in option'[t] /\ b \in eventSet'[t]
  BY DEF Accounted, AccountedWith
<1>4. QED BY <1>1, <1>2, <1>3, PTL DEF EventSpec, EventsAccounted

\* One rt_event_send reaches exactly those whom it satisfies, although the first
\* one may clear what it received.
THEOREM EventsReachAll == EventSpec => SendReachesAll
<1>1. EventInit => EventIInv
  BY EventInitHolds
<1>2. EventIInv /\ [EventNext]_allEventVars => EventIInv'
  BY EventNextHolds DEF StepOK
<1>3. EventIInv =>
        \A s \in Requests : Sends(s) =>
          \A t \in ToSet(waitq["susp"]) :
            IF Satisfied(asked[t], option[t], set \cup s)
            THEN /\ Got(t) /\ t \notin ToSet(waitq'["susp"])
                 /\ eventSet'[t] = asked[t] \cap (set \cup s)
            ELSE t \in ToSet(waitq'["susp"]) /\ eventSet'[t] = asked[t]
  BY SendStep DEF Reached
<1>4. QED BY <1>1, <1>2, <1>3, PTL DEF EventSpec, SendReachesAll
=============================================================================
