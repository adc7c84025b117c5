----------------------------- MODULE CountingSem -----------------------------
(***************************************************************************)
(* What an RT-Thread semaphore promises, without the scheduler: a bounded  *)
(* number of units; a post with waiters goes to one of them and never into *)
(* the counter; a take reports success exactly if a unit was its own.      *)
(***************************************************************************)
EXTENDS Naturals

CONSTANTS
  Thread,   \* the threads
  ValueMax  \* no limit is above it

VARIABLES
  avail,    \* the units
  limit,    \* how many units posts may pile up
  waiting,  \* the threads that wait
  granted,  \* those a unit was given to that have not returned yet
  result    \* the result of each thread's last take: "none", "ok", "fail"

semVars == <<avail, limit, waiting, granted, result>>

Away(t) == t \notin waiting \cup granted

Take(t) ==
  /\ Away(t) /\ avail > 0
  /\ avail' = avail - 1
  /\ result' = [result EXCEPT ![t] = "ok"]
  /\ UNCHANGED <<limit, waiting, granted>>

Wait(t) ==
  /\ Away(t) /\ avail = 0
  /\ waiting' = waiting \cup {t}
  /\ result' = [result EXCEPT ![t] = "none"]
  /\ UNCHANGED <<avail, limit, granted>>

Collect(t) ==
  /\ t \in granted
  /\ granted' = granted \ {t}
  /\ result' = [result EXCEPT ![t] = "ok"]
  /\ UNCHANGED <<avail, limit, waiting>>

\* A take that does not succeed: at once, or after it stopped waiting.
Fail(t) ==
  /\ Away(t)
  /\ result' = [result EXCEPT ![t] = "fail"]
  /\ UNCHANGED <<avail, limit, waiting, granted>>

Post ==
  /\ waiting = {} /\ avail < limit
  /\ avail' = avail + 1
  /\ UNCHANGED <<limit, waiting, granted, result>>

Grant(t) ==
  /\ t \in waiting
  /\ waiting' = waiting \ {t}
  /\ granted' = granted \cup {t}
  /\ UNCHANGED <<avail, limit, result>>

GiveUp(t) ==
  /\ t \in waiting
  /\ waiting' = waiting \ {t}
  /\ UNCHANGED <<avail, limit, granted, result>>

Reset(v) ==
  /\ waiting' = {} /\ avail' = v
  /\ UNCHANGED <<limit, granted, result>>

\* A new limit concerns later posts only; in particular nobody stops waiting.
SetLimit(v) ==
  /\ limit' = v
  /\ UNCHANGED <<avail, waiting, granted, result>>

SemInit ==
  /\ avail \in 0 .. ValueMax
  /\ limit = ValueMax
  /\ waiting = {} /\ granted = {}
  /\ result = [t \in Thread |-> "none"]

SemNext ==
  \/ \E t \in Thread : Take(t) \/ Wait(t) \/ Collect(t) \/ Fail(t)
                         \/ Grant(t) \/ GiveUp(t)
  \/ Post
  \/ \E v \in 0 .. ValueMax : Reset(v) \/ SetLimit(v)

SemSpec == SemInit /\ [][SemNext]_semVars
=============================================================================
