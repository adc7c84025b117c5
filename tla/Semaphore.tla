----------------------------- MODULE Semaphore -----------------------------
(***************************************************************************)
(* The RT-Thread semaphore (ipc.c, RT_USING_SEMAPHORE).                    *)
(*                                                                         *)
(* A definition X_Fault, before X, is X with a fault that the properties   *)
(* are meant to detect; no other definition uses it.                       *)
(***************************************************************************)
EXTENDS KWait

CONSTANTS
  ValueMax,   \* RT_SEM_VALUE_MAX, the largest value of a 16-bit counter
  InitValue   \* the value given to rt_sem_init

\* One wait list, sem->parent.suspend_thread
ASSUME SemAssumption ==
  /\ Queue = {"susp"}
  /\ ValueMax \in Nat \ {0}
  /\ InitValue \in 0 .. ValueMax

VARIABLES
  value,      \* sem->value
  maxValue,   \* sem->max_value
  live,       \* the semaphore is not detached
  result      \* what the last take of each thread returned

semVars == <<value, maxValue, live, result>>
vars == <<waitVars, semVars>>

\* rt_sem_take with a unit there ...
TakeUnit(t) ==
  /\ At(t, "run") /\ live
  /\ value > 0
  /\ value' = value - 1
  /\ result' = [result EXCEPT ![t] = "ok"]
  /\ UNCHANGED <<waitVars, maxValue, live>>

\* ... without one, and timeout 0 ...
TakeNothing(t) ==
  /\ At(t, "run") /\ live
  /\ value = 0
  /\ result' = [result EXCEPT ![t] = "fail"]
  /\ UNCHANGED <<waitVars, value, maxValue, live>>

\* ... or a timeout
TakeWait(t) ==
  /\ At(t, "run") /\ live
  /\ value = 0
  /\ \E timed \in Timeouts : Block(t, "susp", timed, "switch")
  /\ result' = [result EXCEPT ![t] = "none"]
  /\ UNCHANGED <<value, maxValue, live>>

TakeSwitch(t) == Switch(t, "switch", "wait") /\ UNCHANGED semVars

TakeReturn_IgnoresError(t) ==
  /\ At(t, "wait")
  /\ result' = [result EXCEPT ![t] = "ok"]
  /\ Return(t)
  /\ UNCHANGED <<sched, waitq, timer, ttmr, value, maxValue, live>>

\* The thread runs again: thread->error says why.
TakeReturn(t) ==
  /\ At(t, "wait")
  /\ result' = [result EXCEPT ![t] = IF err[t] = "ok" THEN "ok" ELSE "fail"]
  /\ Return(t)
  /\ UNCHANGED <<sched, waitq, timer, ttmr, value, maxValue, live>>

\* rt_sem_release, by the running thread or by an interrupt
Release ==
  /\ live
  /\ WakeOne("susp", "ok")
  /\ value' = IF waitq["susp"] = <<>> /\ value < maxValue THEN value + 1 ELSE value
  /\ UNCHANGED <<pc, maxValue, live, result>>

ReleaseByThread == cur # Idle /\ At(cur, "run") /\ Release
ReleaseByIsr == "isr" \in Features /\ Release

Reset_KeepsWaiters(v) ==
  /\ "reset" \in Features /\ live
  /\ cur # Idle /\ At(cur, "run")
  /\ value' = v
  /\ UNCHANGED <<waitVars, maxValue, live, result>>

\* rt_sem_control(RT_IPC_CMD_RESET, v)
Reset(v) ==
  /\ "reset" \in Features /\ live
  /\ cur # Idle /\ At(cur, "run")
  /\ WakeAs(AllOf("susp"), "error")
  /\ value' = v
  /\ UNCHANGED <<pc, maxValue, live, result>>

\* rt_sem_control(RT_IPC_CMD_SET_VLIMIT, v)
SetLimit(v) ==
  /\ "vlimit" \in Features /\ live
  /\ cur # Idle /\ At(cur, "run")
  /\ v >= 1
  /\ IF v < value /\ waitq["susp"] # <<>>
     THEN WakeAs(AllOf("susp"), "error")
     ELSE UNCHANGED <<sched, waitq, err, timer, ttmr>>
  /\ maxValue' = v
  /\ UNCHANGED <<pc, value, live, result>>

\* rt_sem_detach, which does not call rt_schedule
Detach ==
  /\ "detach" \in Features /\ live
  /\ cur # Idle /\ At(cur, "run")
  /\ sched' = Readied(AllOf("susp")) /\ Ready(AllOf("susp"), "error")
  /\ live' = FALSE
  /\ UNCHANGED <<pc, value, maxValue, result>>

-----------------------------------------------------------------------------
Init ==
  /\ WaitInit
  /\ value = InitValue
  /\ maxValue = ValueMax
  /\ live = TRUE
  /\ result = [t \in Thread |-> "none"]

Continue(t) == TakeSwitch(t) \/ TakeReturn(t)

Next ==
  \/ \E t \in Thread : TakeUnit(t) \/ TakeNothing(t) \/ TakeWait(t) \/ Continue(t)
  \/ ReleaseByThread \/ ReleaseByIsr
  \/ \E v \in 0 .. ValueMax : Reset(v) \/ SetLimit(v)
  \/ Detach
  \/ Elsewhere /\ UNCHANGED semVars

Spec == Init /\ [][Next]_vars

-----------------------------------------------------------------------------
(* Safety properties                                                       *)

\* Type correctness of the semaphore and the waiting threads.
TypeOK ==
  /\ sched \in SchedState
  /\ waitq \in [Queue -> Seq(Thread)]
  /\ err \in [Thread -> Err]
  /\ timer \in [Thread -> BOOLEAN]
  /\ ttmr \in [Thread -> BOOLEAN]
  /\ pc \in [Thread -> {"run", "switch", "wait"}]
  /\ value \in 0 .. ValueMax
  /\ maxValue \in 0 .. ValueMax
  /\ live \in BOOLEAN
  /\ result \in [Thread -> {"none", "ok", "fail"}]

\* No lost wake-up: nobody waits while there are units.  (It follows that the
\* branch of RT_IPC_CMD_SET_VLIMIT that resumes waiters is never taken.)
NobodyWaitsForUnits == value > 0 => waitq["susp"] = <<>>

\* The threads suspended in a take are those on the wait list, each once: a
\* release finds all of them and wakes no other, whatever ended their waits
\* before; and a detach leaves no waiter behind.
SuspendedListed ==
  /\ \A t \in Thread : sched.stat[t] = "suspend" /\ pc[t] # "run"
                          <=> t \in ToSet(waitq["susp"])
  /\ IsInjective(waitq["susp"])
  /\ waitq["susp"] # <<>> => live

\* The state of the semaphore and of the waits for it, whatever ended them:
\* whoever is suspended in a take is on the list, and can be readied from it.
SemInv == TypeOK /\ SuspendedListed /\ TimersAgree

-----------------------------------------------------------------------------
(* The semaphore implements CountingSem.  A unit is given to the thread that
   is woken with RT_EOK, and is its own although it has not run yet.         *)

Granted ==
  {t \in Thread : pc[t] # "run" /\ sched.stat[t] # "suspend" /\ err[t] = "ok"}

Counting == INSTANCE CountingSem WITH
              avail   <- value,
              limit   <- maxValue,
              waiting <- ToSet(waitq["susp"]),
              granted <- Granted,
              result  <- result

\* Units are neither lost nor made up: every one is counted or given to exactly
\* one thread, whose take then returns RT_EOK, and no other take does.
ImplementsCounting == Counting!SemSpec
=============================================================================
